---- MODULE Spec2Model ----
(***************************************************************************)
(* Model of backend/services/finance_service.py (FinanceService) and       *)
(* backend/services/analytics_service.py (AnalyticsService).               *)
(*                                                                         *)
(* The stored records (projects, tasks, budgets, expenses, notifications)  *)
(* are the state; every service method is one action that leaves its       *)
(* outcome in res.  Money amounts are integers (currency units), time is   *)
(* counted in ticks of half a day so that timedelta.days (a floor) is not  *)
(* the identity.  An optional value (a nullable column, an optional key of *)
(* the request data) is the empty set or a singleton.                      *)
(*                                                                         *)
(* A failed request never commits: the session is discarded, so the stored *)
(* records are unchanged and res records the exception that reached the    *)
(* caller.                                                                 *)
(***************************************************************************)
EXTENDS Integers, Sequences, FiniteSets, Bags, TLC

(* ------------------------------ bounds -------------------------------- *)
\* Auto-increment ids handed out by the store; they cap the number of creations.
MaxBudgets == 2
MaxExpenses == 2
\* Longest task list drawn for the health computation.
MaxHealthTasks == 3
\* Largest number of tasks of one kind drawn for the risk assessment.
MaxRiskTasks == 11
\* Most expenses drawn for the forecast.
MaxForecastExpenses == 3
\* Most expenses drawn for the variance analysis.
MaxVarianceExpenses == 3
\* Most tasks, and most expenses, drawn for the time windows.
MaxBucketRecords == 2
\* Most tasks drawn for the performance prediction.
MaxPredictionTasks == 4
MaxDashboardTasks == 3
MaxSeriesLen == 10

(* --------------------------- optional values -------------------------- *)
None == {}
Some(v) == {v}
Has(o) == o # {}
Val(o) == CHOOSE v \in o : TRUE
Get(o, default) == IF o = {} THEN default ELSE Val(o)
Opt(S) == {None} \cup {{v} : v \in S}

Min2(a, b) == IF a <= b THEN a ELSE b
Max2(a, b) == IF a >= b THEN a ELSE b

RECURSIVE SumSet(_, _)
\* Sum of f[x] over a finite set S.
SumSet(f, S) ==
  IF S = {} THEN 0
  ELSE LET x == CHOOSE y \in S : TRUE IN f[x] + SumSet(f, S \ {x})

RECURSIVE SumSeq(_)
SumSeq(s) == IF s = << >> THEN 0 ELSE Head(s) + SumSeq(Tail(s))

(* ------------------------------- time --------------------------------- *)
TicksPerDay == 2
\* timedelta.days: whole days, rounded towards minus infinity.
days(delta) == delta \div TicksPerDay
\* strftime('%Y-%m'): the month a timestamp falls in (months of 30 days).
month_key(t) == t \div (30 * TicksPerDay)
\* strftime('%Y-%m-%d'): the day a timestamp falls in.
date_key(t) == t \div TicksPerDay
\* get_utc_now().replace(day=1): the same time of day on the first of the
\* month (months of 30 days).
replace_day_1(t) == t - ((t \div TicksPerDay) % 30) * TicksPerDay

(* ------------------------------ universe ------------------------------ *)
Users == {1, 2, 3}
ProjectIds == {1}
\* Project ids a caller may pass: 9 is the id of no project.
ProjectArgs == ProjectIds \cup {9}
Allocations == {0, 100}
Amounts == {0, 60}

VARIABLES projects, tasks, budgets, expenses, notifications,
          next_budget_id, next_expense_id, now, in_flight, res

vars == <<projects, tasks, budgets, expenses, notifications,
          next_budget_id, next_expense_id, now, in_flight, res>>

store == <<projects, tasks, budgets, expenses, notifications,
           next_budget_id, next_expense_id, now, in_flight>>

(* ------------------------ models.py (not in src) ---------------------- *)
\* Budget.spent_amount column default.
DefaultSpentAmount == 0
\* Budget.remaining_amount
remaining_amount(b) == b.allocated_amount - b.spent_amount
\* Budget.utilization_percentage as a fraction <<numerator, denominator>>,
\* 0 when nothing is allocated.
utilization_percentage(b) ==
  IF b.allocated_amount = 0 THEN <<0, 1>>
  ELSE <<b.spent_amount * 100, b.allocated_amount>>
\* Task.is_overdue()
is_overdue(t, at) ==
  t.status # "completed" /\ Has(t.due_date) /\ Val(t.due_date) < at
\* Task.status of a task whose status column is NULL; t.status.value on it
\* raises AttributeError.
NullStatus == "null"
has_null_status(ts) == \E i \in DOMAIN ts : ts[i].status = NullStatus
\* User.projects: the ids of the projects the user is a member of, in order.
user_projects(all_projects, user_id) ==
  LET ids == {p \in DOMAIN all_projects : user_id \in all_projects[p].members}
  IN CHOOSE f \in [1..Cardinality(ids) -> ids] :
       \A i, j \in 1..Cardinality(ids) : i < j => f[i] < f[j]
\* Expense.incurred_at column default: the time of creation.
DefaultIncurredAt(at) == at

(* ------------------------------ queries ------------------------------- *)
\* any(member.id == user_id for member in project.members)
is_project_member(p, user_id) == user_id \in p.members
\* ... or project.owner_id == user_id
is_member_or_owner(p, user_id) ==
  is_project_member(p, user_id) \/ p.owner_id = user_id
\* Budget.query.filter_by(project_id=...).first(): the candidates.
BudgetFirst(project_id) ==
  LET bs == {b \in budgets : b.project_id = project_id}
  IN IF bs = {} THEN {None} ELSE {Some(b) : b \in bs}
\* Expense.query.filter_by(project_id=...).all()
ExpensesOf(project_id) == {e \in expenses : e.project_id = project_id}
\* Task.query.filter_by(project_id=...).all()
TasksOf(project_id) == SelectSeq(tasks, LAMBDA t : t.project_id = project_id)
BudgetById(id) == {b \in budgets : b.id = id}
ExpenseById(id) == {e \in expenses : e.id = id}
AmountOf == [e \in expenses |-> e.amount]

Result(op, user_id, project_id, outcome, payload) ==
  [op |-> op, user_id |-> user_id, project_id |-> project_id,
   outcome |-> outcome, payload |-> payload]
NoPayload == [none |-> TRUE]

\* The request fails before commit: nothing stored changes.
Fails(op, user_id, project_id, exc) ==
  /\ res' = Result(op, user_id, project_id, exc, NoPayload)
  /\ UNCHANGED store

(* ======================= FinanceService: budgets ===================== *)
\* Request data: every key is optional.
BudgetData == [allocated_amount : Opt(Allocations), currency : {None}]
ExpenseData == [amount : Opt(Amounts), category : {None}]

\* Budget(project_id=..., allocated_amount=float(data.get(..., 0)), currency=...)
NewBudget(id, project_id, data) ==
  [id |-> id, project_id |-> project_id,
   allocated_amount |-> Get(data.allocated_amount, 0),
   spent_amount |-> DefaultSpentAmount,
   currency |-> Get(data.currency, "USD")]

\* Variant of create_budget without the check for an existing budget.
create_budget_unchecked(user_id, project_id, data) ==
  IF project_id \notin DOMAIN projects
  THEN Fails("create_budget", user_id, project_id, "NotFound")
  ELSE IF ~is_project_member(projects[project_id], user_id)
  THEN Fails("create_budget", user_id, project_id, "PermissionError")
  ELSE /\ next_budget_id <= MaxBudgets
       /\ budgets' = budgets \cup {NewBudget(next_budget_id, project_id, data)}
       /\ next_budget_id' = next_budget_id + 1
       /\ res' = Result("create_budget", user_id, project_id, "returned",
                        [budget_id |-> next_budget_id])
       /\ UNCHANGED <<projects, tasks, expenses, notifications,
                      next_expense_id, now, in_flight>>

create_budget(user_id, project_id, data) ==
  IF project_id \notin DOMAIN projects
  THEN Fails("create_budget", user_id, project_id, "NotFound")
  ELSE IF ~is_project_member(projects[project_id], user_id)
  THEN Fails("create_budget", user_id, project_id, "PermissionError")
  ELSE IF BudgetFirst(project_id) # {None}
  THEN Fails("create_budget", user_id, project_id, "ValueError")
  ELSE /\ next_budget_id <= MaxBudgets
       /\ budgets' = budgets \cup {NewBudget(next_budget_id, project_id, data)}
       /\ next_budget_id' = next_budget_id + 1
       /\ res' = Result("create_budget", user_id, project_id, "returned",
                        [budget_id |-> next_budget_id])
       /\ UNCHANGED <<projects, tasks, expenses, notifications,
                      next_expense_id, now, in_flight>>

\* The fields update_budget assigns.
UpdatedBudget(b, data) ==
  [b EXCEPT !.allocated_amount = Get(data.allocated_amount, @),
            !.currency = Get(data.currency, @)]

update_budget(user_id, budget_id, data) ==
  IF BudgetById(budget_id) = {}
  THEN Fails("update_budget", user_id, 0, "NotFound")
  ELSE LET b == Val(BudgetById(budget_id)) IN
    IF ~is_project_member(projects[b.project_id], user_id)
    THEN Fails("update_budget", user_id, b.project_id, "PermissionError")
    ELSE /\ budgets' = (budgets \ {b}) \cup {UpdatedBudget(b, data)}
         /\ res' = Result("update_budget", user_id, b.project_id, "returned",
                          [budget_id |-> budget_id])
         /\ UNCHANGED <<projects, tasks, expenses, notifications,
                        next_budget_id, next_expense_id, now, in_flight>>

delete_budget(user_id, budget_id) ==
  IF BudgetById(budget_id) = {}
  THEN Fails("delete_budget", user_id, 0, "NotFound")
  ELSE LET b == Val(BudgetById(budget_id)) IN
    IF ~is_project_member(projects[b.project_id], user_id)
    THEN Fails("delete_budget", user_id, b.project_id, "PermissionError")
    ELSE /\ budgets' = budgets \ {b}
         /\ res' = Result("delete_budget", user_id, b.project_id, "returned",
                          [budget_id |-> budget_id])
         /\ UNCHANGED <<projects, tasks, expenses, notifications,
                        next_budget_id, next_expense_id, now, in_flight>>

(* ======================= FinanceService: expenses ==================== *)
\* Expense(project_id=..., amount=float(data.get('amount', 0)), ...)
NewExpense(id, user_id, project_id, data) ==
  [id |-> id, project_id |-> project_id,
   amount |-> Get(data.amount, 0),
   category |-> Some(Get(data.category, "General")),
   incurred_at |-> DefaultIncurredAt(now),
   created_by |-> user_id]

\* Variant of create_budget_overrun_notification that notifies every user,
\* member of the project or not.
create_budget_overrun_notification_everyone(project, budget) ==
  IF budget.allocated_amount = 0
  THEN [raised |-> TRUE, notifications |-> notifications]
  ELSE [raised |-> FALSE,
        notifications |-> [u \in Users |-> notifications[u] + 1]]

\* _create_budget_overrun_notification: the division by allocated_amount
\* comes first, then one notification for each project member.
\* (Failures of send_email are caught and logged inside the loop.)
create_budget_overrun_notification(project, budget) ==
  IF budget.allocated_amount = 0
  THEN [raised |-> TRUE, notifications |-> notifications]
  ELSE [raised |-> FALSE,
        notifications |->
          [u \in Users |-> IF u \in project.members
                           THEN notifications[u] + 1 ELSE notifications[u]]]

\* budget.spent_amount += expense.amount
spent_after_add(budget, expense) == budget.spent_amount + expense.amount

add_expense(user_id, project_id, data) ==
  IF project_id \notin DOMAIN projects
  THEN Fails("add_expense", user_id, project_id, "NotFound")
  ELSE IF ~is_project_member(projects[project_id], user_id)
  THEN Fails("add_expense", user_id, project_id, "PermissionError")
  ELSE
    /\ next_expense_id <= MaxExpenses
    /\ \E ob \in BudgetFirst(project_id) :
         LET expense == NewExpense(next_expense_id, user_id, project_id, data)
             added == Result("add_expense", user_id, project_id, "returned",
                             [expense_id |-> next_expense_id])
         IN
         IF ~Has(ob)
         THEN /\ expenses' = expenses \cup {expense}
              /\ next_expense_id' = next_expense_id + 1
              /\ res' = added
              /\ UNCHANGED <<projects, tasks, budgets, notifications,
                             next_budget_id, now, in_flight>>
         ELSE LET b == Val(ob)
                  b2 == [b EXCEPT !.spent_amount = spent_after_add(b, expense)]
                  n == create_budget_overrun_notification(projects[project_id], b2)
              IN
              IF b2.spent_amount > b2.allocated_amount /\ n.raised
              THEN Fails("add_expense", user_id, project_id, "ZeroDivisionError")
              ELSE /\ expenses' = expenses \cup {expense}
                   /\ next_expense_id' = next_expense_id + 1
                   /\ budgets' = (budgets \ {b}) \cup {b2}
                   /\ notifications' =
                        IF b2.spent_amount > b2.allocated_amount
                        THEN n.notifications ELSE notifications
                   /\ res' = added
                   /\ UNCHANGED <<projects, tasks, next_budget_id, now, in_flight>>

\* The fields update_expense assigns.
UpdatedExpense(e, data) ==
  [e EXCEPT !.amount = Get(data.amount, @),
            !.category = IF Has(data.category) THEN data.category ELSE @]

\* Variant of spent_after_update that adds the new amount without taking the
\* old one off.
spent_after_update_absolute(budget, old_amount, expense) ==
  budget.spent_amount + expense.amount

\* budget.spent_amount += expense.amount - old_amount
spent_after_update(budget, old_amount, expense) ==
  budget.spent_amount + (expense.amount - old_amount)

update_expense(user_id, expense_id, data) ==
  IF ExpenseById(expense_id) = {}
  THEN Fails("update_expense", user_id, 0, "NotFound")
  ELSE LET e == Val(ExpenseById(expense_id)) IN
    IF ~is_project_member(projects[e.project_id], user_id)
    THEN Fails("update_expense", user_id, e.project_id, "PermissionError")
    ELSE \E ob \in BudgetFirst(e.project_id) :
      LET e2 == UpdatedExpense(e, data) IN
      /\ expenses' = (expenses \ {e}) \cup {e2}
      /\ budgets' =
           IF Has(ob)
           THEN (budgets \ {Val(ob)}) \cup
                {[Val(ob) EXCEPT !.spent_amount =
                    spent_after_update(Val(ob), e.amount, e2)]}
           ELSE budgets
      /\ res' = Result("update_expense", user_id, e.project_id, "returned",
                       [expense_id |-> expense_id])
      /\ UNCHANGED <<projects, tasks, notifications,
                     next_budget_id, next_expense_id, now, in_flight>>

\* budget.spent_amount -= expense.amount
spent_after_delete(budget, expense) == budget.spent_amount - expense.amount

delete_expense(user_id, expense_id) ==
  IF ExpenseById(expense_id) = {}
  THEN Fails("delete_expense", user_id, 0, "NotFound")
  ELSE LET e == Val(ExpenseById(expense_id)) IN
    IF ~is_project_member(projects[e.project_id], user_id)
    THEN Fails("delete_expense", user_id, e.project_id, "PermissionError")
    ELSE \E ob \in BudgetFirst(e.project_id) :
      /\ expenses' = expenses \ {e}
      /\ budgets' =
           IF Has(ob)
           THEN (budgets \ {Val(ob)}) \cup
                {[Val(ob) EXCEPT !.spent_amount = spent_after_delete(Val(ob), e)]}
           ELSE budgets
      /\ res' = Result("delete_expense", user_id, e.project_id, "returned",
                       [expense_id |-> expense_id])
      /\ UNCHANGED <<projects, tasks, notifications,
                     next_budget_id, next_expense_id, now, in_flight>>

(* ============ FinanceService: expense requests in flight ============== *)
\* Two requests served at the same time, each in a database session of its
\* own.  A request first runs up to its Budget query, which loads the budget
\* row into its session, and later commits what it has computed from the rows
\* it loaded; the other request may commit in between.
Requests == {1, 2}
IdleRequest == [pc |-> "idle"]
NoRequests == [r \in Requests |-> IdleRequest]

\* What is committed in the database.
committed == <<projects, tasks, budgets, expenses, notifications,
               next_budget_id, next_expense_id, now>>

\* The request ends in an exception before anything is committed.
request_fails(r, op, user_id, project_id, exc) ==
  /\ in_flight' = [in_flight EXCEPT ![r] = [pc |-> "done", outcome |-> exc]]
  /\ res' = Result(op, user_id, project_id, exc, [request |-> r])
  /\ UNCHANGED committed

\* The request has loaded its rows and goes on to compute and commit.
request_loaded(r, op, user_id, project_id, data, expense, budget) ==
  /\ in_flight' = [in_flight EXCEPT ![r] =
                     [pc |-> "loaded", op |-> op, user_id |-> user_id,
                      project_id |-> project_id, data |-> data,
                      expense |-> expense, budget |-> budget]]
  /\ UNCHANGED <<committed, res>>

\* add_expense up to Budget.query...first()
begin_add_expense(r, user_id, project_id, data) ==
  /\ in_flight[r].pc = "idle"
  /\ IF project_id \notin DOMAIN projects
     THEN request_fails(r, "add_expense", user_id, project_id, "NotFound")
     ELSE IF ~is_project_member(projects[project_id], user_id)
     THEN request_fails(r, "add_expense", user_id, project_id, "PermissionError")
     ELSE \E ob \in BudgetFirst(project_id) :
            request_loaded(r, "add_expense", user_id, project_id, data, None, ob)

\* update_expense up to Budget.query...first()
begin_update_expense(r, user_id, expense_id, data) ==
  /\ in_flight[r].pc = "idle"
  /\ IF ExpenseById(expense_id) = {}
     THEN request_fails(r, "update_expense", user_id, 0, "NotFound")
     ELSE LET e == Val(ExpenseById(expense_id)) IN
       IF ~is_project_member(projects[e.project_id], user_id)
       THEN request_fails(r, "update_expense", user_id, e.project_id, "PermissionError")
       ELSE \E ob \in BudgetFirst(e.project_id) :
              request_loaded(r, "update_expense", user_id, e.project_id, data,
                             Some(e), ob)

\* delete_expense up to Budget.query...first()
begin_delete_expense(r, user_id, expense_id) ==
  /\ in_flight[r].pc = "idle"
  /\ IF ExpenseById(expense_id) = {}
     THEN request_fails(r, "delete_expense", user_id, 0, "NotFound")
     ELSE LET e == Val(ExpenseById(expense_id)) IN
       IF ~is_project_member(projects[e.project_id], user_id)
       THEN request_fails(r, "delete_expense", user_id, e.project_id, "PermissionError")
       ELSE \E ob \in BudgetFirst(e.project_id) :
              request_loaded(r, "delete_expense", user_id, e.project_id,
                             [amount |-> None, category |-> None], Some(e), ob)

\* Variant of written_budgets in which the database adds the change to the
\* spent_amount it holds (UPDATE ... SET spent_amount = spent_amount + delta).
incremented_budgets(ob, spent_amount) ==
  IF Has(ob)
  THEN {IF b.id = Val(ob).id
        THEN [b EXCEPT !.spent_amount = @ + (spent_amount - Val(ob).spent_amount)]
        ELSE b : b \in budgets}
  ELSE budgets

\* The UPDATE the commit flushes for a budget loaded as ob whose spent_amount
\* the session has set: the value computed in the session is written.
written_budgets(ob, spent_amount) ==
  IF Has(ob)
  THEN {IF b.id = Val(ob).id THEN [b EXCEPT !.spent_amount = spent_amount] ELSE b :
          b \in budgets}
  ELSE budgets

request_done(r, q, payload) ==
  /\ in_flight' = [in_flight EXCEPT ![r] = [pc |-> "done", outcome |-> "returned"]]
  /\ res' = Result(q.op, q.user_id, q.project_id, "returned", payload)

\* The rest of add_expense: the expense, the budget's spent_amount, the
\* overrun notifications, the commit.
commit_add_expense(r) ==
  LET q == in_flight[r]
      expense == NewExpense(next_expense_id, q.user_id, q.project_id, q.data)
  IN
  /\ q.pc = "loaded"
  /\ q.op = "add_expense"
  /\ IF ~Has(q.budget)
     THEN /\ expenses' = expenses \cup {expense}
          /\ next_expense_id' = next_expense_id + 1
          /\ request_done(r, q, [expense_id |-> next_expense_id])
          /\ UNCHANGED <<projects, tasks, budgets, notifications, next_budget_id, now>>
     ELSE LET b2 == [Val(q.budget) EXCEPT
                       !.spent_amount = spent_after_add(Val(q.budget), expense)]
              n == create_budget_overrun_notification(projects[q.project_id], b2)
          IN
          IF b2.spent_amount > b2.allocated_amount /\ n.raised
          THEN request_fails(r, "add_expense", q.user_id, q.project_id,
                             "ZeroDivisionError")
          ELSE /\ expenses' = expenses \cup {expense}
               /\ next_expense_id' = next_expense_id + 1
               /\ budgets' = written_budgets(q.budget, b2.spent_amount)
               /\ notifications' =
                    IF b2.spent_amount > b2.allocated_amount
                    THEN n.notifications ELSE notifications
               /\ request_done(r, q, [expense_id |-> next_expense_id])
               /\ UNCHANGED <<projects, tasks, next_budget_id, now>>

\* The rest of update_expense.
commit_update_expense(r) ==
  LET q == in_flight[r]
      e == Val(q.expense)
      e2 == UpdatedExpense(e, q.data)
  IN
  /\ q.pc = "loaded"
  /\ q.op = "update_expense"
  /\ expenses' = {IF x.id = e.id THEN e2 ELSE x : x \in expenses}
  /\ budgets' =
       IF Has(q.budget)
       THEN written_budgets(q.budget, spent_after_update(Val(q.budget), e.amount, e2))
       ELSE budgets
  /\ request_done(r, q, [expense_id |-> e.id])
  /\ UNCHANGED <<projects, tasks, notifications, next_budget_id, next_expense_id, now>>

\* The rest of delete_expense.
commit_delete_expense(r) ==
  LET q == in_flight[r]
      e == Val(q.expense)
  IN
  /\ q.pc = "loaded"
  /\ q.op = "delete_expense"
  /\ expenses' = {x \in expenses : x.id # e.id}
  /\ budgets' =
       IF Has(q.budget)
       THEN written_budgets(q.budget, spent_after_delete(Val(q.budget), e))
       ELSE budgets
  /\ request_done(r, q, [expense_id |-> e.id])
  /\ UNCHANGED <<projects, tasks, notifications, next_budget_id, next_expense_id, now>>

\* The other outcome a database gives a commit whose session loaded a budget
\* row that has been changed since: the commit is refused (a serialization
\* failure, or SQLite's busy snapshot) and nothing of the request is stored.
abort_stale_request(r) ==
  LET q == in_flight[r] IN
  /\ q.pc = "loaded"
  /\ Has(q.budget)
  /\ Val(q.budget) \notin budgets
  /\ request_fails(r, q.op, q.user_id, q.project_id, "OperationalError")

(* ============================ fractions =============================== *)
\* Python floats are modelled as exact fractions <<numerator, denominator>>
\* with a positive denominator.
Frac(n, d) == IF d < 0 THEN <<-n, -d>> ELSE <<n, d>>
FInt(k) == <<k, 1>>
FAdd(a, b) == <<a[1] * b[2] + b[1] * a[2], a[2] * b[2]>>
FSub(a, b) == <<a[1] * b[2] - b[1] * a[2], a[2] * b[2]>>
FMul(a, b) == <<a[1] * b[1], a[2] * b[2]>>
\* a / b for b # 0
FDiv(a, b) == Frac(a[1] * b[2], a[2] * b[1])
FLt(a, b) == a[1] * b[2] < b[1] * a[2]
FLe(a, b) == a[1] * b[2] <= b[1] * a[2]
FEq(a, b) == a[1] * b[2] = b[1] * a[2]
FMax(a, b) == IF FLe(b, a) THEN a ELSE b
FMin(a, b) == IF FLe(a, b) THEN a ELSE b
FAbs(a) == IF a[1] < 0 THEN <<-a[1], a[2]>> ELSE a
RECURSIVE GCD(_, _)
GCD(a, b) == IF b = 0 THEN a ELSE GCD(b, a % b)
\* The same number in lowest terms.
FNorm(a) ==
  LET g == GCD(IF a[1] < 0 THEN -a[1] ELSE a[1], a[2])
  IN IF g = 0 THEN a ELSE <<a[1] \div g, a[2] \div g>>
RECURSIVE FSumSeq(_)
\* sum(xs) for a list of fractions
FSumSeq(xs) == IF xs = << >> THEN FInt(0) ELSE FNorm(FAdd(Head(xs), FSumSeq(Tail(xs))))
\* np.mean(xs) for a non-empty list of fractions
FMean(xs) == FNorm(FDiv(FSumSeq(xs), FInt(Len(xs))))
\* np.var(xs): the mean of the squared deviations from the mean
FVar(xs) ==
  LET m == FMean(xs)
  IN FMean([k \in 1..Len(xs) |-> FNorm(FMul(FSub(xs[k], m), FSub(xs[k], m)))])
\* round(x, digits) in units of 1/scale (scale = 10^digits): to the nearest
\* unit, a tie to the even one.
round_to(a, scale) ==
  LET n == scale * a[1]
      q == n \div a[2]
      r == n - q * a[2]
  IN IF 2 * r < a[2] THEN q
     ELSE IF 2 * r > a[2] THEN q + 1
     ELSE IF q % 2 = 0 THEN q ELSE q + 1
round1(a) == round_to(a, 10)
round2(a) == round_to(a, 100)

(* =================== AnalyticsService.get_project_health ============== *)
RECURSIVE on_time_analysis(_, _)
\* The loop over completed_tasks: counts the tasks completed by their due
\* date and adds up the delays, in days, of the late ones.
on_time_analysis(completed_tasks, acc) ==
  IF completed_tasks = << >> THEN acc
  ELSE LET task == Head(completed_tasks)
           acc2 ==
             IF Has(task.due_date) /\ Has(task.last_progress_update)
             THEN IF Val(task.last_progress_update) <= Val(task.due_date)
                  THEN [acc EXCEPT !.on_time_completed = @ + 1]
                  ELSE [acc EXCEPT !.total_delays = @ +
                          days(Val(task.last_progress_update) - Val(task.due_date))]
             ELSE acc
       IN on_time_analysis(Tail(completed_tasks), acc2)

\* on_time_completed / len(completed_tasks) * 100 if completed_tasks else 100
on_time_rate(on_time_completed, n_completed) ==
  IF n_completed > 0 THEN Frac(on_time_completed * 100, n_completed) ELSE FInt(100)

\* total_delays / (len(completed_tasks) - on_time_completed), 0 without divisor
avg_delay(total_delays, on_time_completed, n_completed) ==
  IF n_completed - on_time_completed > 0
  THEN Frac(total_delays, n_completed - on_time_completed) ELSE FInt(0)

\* Variant of health_score without the max(0, ...) floor.
health_score_unfloored(overdue_percentage, rate) ==
  FSub(FSub(FInt(100), FMul(overdue_percentage, FInt(2))),
       FMul(FSub(FInt(100), rate), <<1, 2>>))

\* max(0, 100 - (overdue_percentage * 2) - ((100 - on_time_rate) * 0.5))
health_score(overdue_percentage, rate) ==
  FMax(FInt(0),
       FSub(FSub(FInt(100), FMul(overdue_percentage, FInt(2))),
            FMul(FSub(FInt(100), rate), <<1, 2>>)))

health_status(score) ==
  IF FLe(FInt(80), score) THEN "healthy"
  ELSE IF FLe(FInt(60), score) THEN "warning" ELSE "critical"

\* The payload of get_project_health for a task list; rounded numbers are in
\* tenths.  (bottleneck_tasks feeds no other field and is left out.)
project_health(ts, at) ==
  IF ts = << >>
  THEN [total_tasks |-> 0, health_score |-> 1000, status |-> "healthy",
        overdue_percentage |-> 0, on_time_completion_rate |-> 1000,
        average_delay_days |-> 0]
  ELSE
    LET total_tasks == Len(ts)
        overdue_tasks == SelectSeq(ts, LAMBDA t : is_overdue(t, at))
        completed_tasks == SelectSeq(ts, LAMBDA t : t.status = "completed")
        acc == on_time_analysis(completed_tasks,
                                [on_time_completed |-> 0, total_delays |-> 0])
        rate == on_time_rate(acc.on_time_completed, Len(completed_tasks))
        delay == avg_delay(acc.total_delays, acc.on_time_completed,
                           Len(completed_tasks))
        overdue_percentage == Frac(Len(overdue_tasks) * 100, total_tasks)
        score == health_score(overdue_percentage, rate)
    IN [total_tasks |-> total_tasks,
        completed_tasks |-> Len(completed_tasks),
        overdue_tasks |-> Len(overdue_tasks),
        overdue_percentage |-> round1(overdue_percentage),
        on_time_completion_rate |-> round1(rate),
        average_delay_days |-> round1(delay),
        health_score |-> round1(score),
        status |-> health_status(score)]

\* What a call of get_project_health ends in: its outcome and payload.
project_health_outcome(project_id, user_id) ==
  IF project_id \notin DOMAIN projects
  THEN [outcome |-> "NotFound", payload |-> NoPayload]
  ELSE IF ~is_project_member(projects[project_id], user_id)
  THEN [outcome |-> "PermissionError", payload |-> NoPayload]
  ELSE IF has_null_status(TasksOf(project_id))
  THEN [outcome |-> "AttributeError", payload |-> NoPayload]
  ELSE [outcome |-> "returned", payload |-> project_health(TasksOf(project_id), now)]

get_project_health(project_id, user_id) ==
  /\ res' = Result("get_project_health", user_id, project_id,
                   project_health_outcome(project_id, user_id).outcome,
                   project_health_outcome(project_id, user_id).payload)
  /\ UNCHANGED store

(* =================== AnalyticsService.get_risk_assessment ============= *)
\* risk_factors.append({...}); risk_score += points
add_risk(acc, type, severity, impact, points) ==
  [risk_factors |-> Append(acc.risk_factors,
                           [type |-> type, severity |-> severity, impact |-> impact]),
   risk_score |-> acc.risk_score + points]

\* len(overdue_tasks) > len(tasks) * 0.3
overdue_ratio_exceeded(n_overdue, n_tasks) == 10 * n_overdue > 3 * n_tasks

\* Deadline risk analysis: the whole if/elif chain sits under `if project.deadline`.
deadline_risk(acc, project, ts, at) ==
  IF ~Has(project.deadline) THEN acc
  ELSE
    LET days_to_deadline == days(Val(project.deadline) - at)
        incomplete_tasks ==
          SelectSeq(ts, LAMBDA t : t.status \notin {NullStatus, "completed"})
        overdue_tasks == SelectSeq(ts, LAMBDA t : is_overdue(t, at))
    IN IF days_to_deadline <= 0
       THEN add_risk(acc, "deadline", "critical", 90, 40)
       ELSE IF days_to_deadline <= 7 /\ incomplete_tasks # << >>
       THEN add_risk(acc, "deadline", "high", 70, 30)
       ELSE IF overdue_ratio_exceeded(Len(overdue_tasks), Len(ts))
       THEN add_risk(acc, "task_overdue", "medium", 50, 20)
       ELSE acc

\* Variant of budget_risk testing the rules independently (if, if, if) instead
\* of as one if/elif chain.
budget_risk_independent(acc, ob) ==
  IF ~Has(ob) THEN acc
  ELSE
    LET utilization == utilization_percentage(Val(ob))
        b1 == IF FLt(FInt(100), utilization)
              THEN add_risk(acc, "budget", "critical", 80, 35) ELSE acc
        b2 == IF FLt(FInt(90), utilization)
              THEN add_risk(b1, "budget", "high", 60, 25) ELSE b1
    IN IF FLt(FInt(75), utilization)
       THEN add_risk(b2, "budget", "medium", 40, 15) ELSE b2

\* Budget risk analysis
budget_risk(acc, ob) ==
  IF ~Has(ob) THEN acc
  ELSE
    LET utilization == utilization_percentage(Val(ob))
    IN IF FLt(FInt(100), utilization)
       THEN add_risk(acc, "budget", "critical", 80, 35)
       ELSE IF FLt(FInt(90), utilization)
       THEN add_risk(acc, "budget", "high", 60, 25)
       ELSE IF FLt(FInt(75), utilization)
       THEN add_risk(acc, "budget", "medium", 40, 15)
       ELSE acc

\* Team workload risk
workload_risk(acc, project, ts) ==
  LET team_size == Cardinality(project.members) + 1
      tasks_per_member == IF team_size > 0 THEN Frac(Len(ts), team_size)
                          ELSE FInt(Len(ts))
  IN IF FLt(FInt(10), tasks_per_member)
     THEN add_risk(acc, "workload", "medium", 45, 15)
     ELSE acc

\* Velocity risk
velocity_risk(acc, ts) ==
  LET n_completed == Len(SelectSeq(ts, LAMBDA t : t.status = "completed"))
      completion_rate == IF ts # << >> THEN Frac(n_completed * 100, Len(ts))
                         ELSE FInt(0)
  IN IF FLt(completion_rate, FInt(30))
     THEN add_risk(acc, "velocity", "high", 65, 25)
     ELSE acc

\* Variant of cap_risk_score without the min(..., 100) cap.
cap_risk_score_uncapped(risk_score) == risk_score

\* risk_score = min(risk_score, 100)
cap_risk_score(risk_score) == Min2(risk_score, 100)

\* Variant of risk_level whose bands include their upper bounds.
risk_level_inclusive(risk_score) ==
  IF risk_score <= 30 THEN "low"
  ELSE IF risk_score <= 60 THEN "medium"
  ELSE IF risk_score <= 80 THEN "high" ELSE "critical"

risk_level(risk_score) ==
  IF risk_score < 30 THEN "low"
  ELSE IF risk_score < 60 THEN "medium"
  ELSE IF risk_score < 80 THEN "high" ELSE "critical"

RECURSIVE insert_by_impact(_, _)
insert_by_impact(sorted, x) ==
  IF sorted = << >> THEN <<x>>
  ELSE IF Head(sorted).impact >= x.impact
       THEN <<Head(sorted)>> \o insert_by_impact(Tail(sorted), x)
       ELSE <<x>> \o sorted

RECURSIVE sort_by_impact(_)
\* sorted(risk_factors, key=impact, reverse=True): stable, descending.
sort_by_impact(fs) ==
  IF fs = << >> THEN << >>
  ELSE insert_by_impact(sort_by_impact(SubSeq(fs, 1, Len(fs) - 1)), fs[Len(fs)])

\* The two recommendations one risk factor contributes.
risk_recommendations_of(risk) ==
  IF risk.type = "deadline" /\ risk.severity \in {"critical", "high"}
  THEN {"prioritize_critical_tasks", "add_team_members"}
  ELSE IF risk.type = "budget" /\ risk.severity \in {"critical", "high"}
  THEN {"optimize_expenses", "stricter_budget_monitoring"}
  ELSE IF risk.type = "workload"
  THEN {"redistribute_tasks", "automation_or_outsourcing"}
  ELSE IF risk.type = "velocity"
  THEN {"complete_existing_tasks", "remove_impediments"}
  ELSE {}

RECURSIVE appended_recommendations(_)
\* The list `recommendations` after the loop over the risk factors, up to the
\* order of its entries: a bag of strings.
appended_recommendations(risk_factors) ==
  IF risk_factors = << >> THEN EmptyBag
  ELSE appended_recommendations(SubSeq(risk_factors, 1, Len(risk_factors) - 1))
       (+) SetToBag(risk_recommendations_of(risk_factors[Len(risk_factors)]))

\* Variant of with_on_track_default that appends the 'on track' message
\* whatever the list holds.
with_on_track_always(recommendations) == recommendations (+) SetToBag({"on_track"})

\* if not recommendations: recommendations.append('on track')
with_on_track_default(recommendations) ==
  IF recommendations = EmptyBag THEN SetToBag({"on_track"}) ELSE recommendations

\* _generate_risk_recommendations.  list(set(recommendations)) keeps each
\* string once, in no particular order: a bag again.
generate_risk_recommendations(risk_factors) ==
  SetToBag(BagToSet(with_on_track_default(appended_recommendations(risk_factors))))

\* The payload of get_risk_assessment.
risk_assessment(project, ts, ob, at) ==
  LET a0 == [risk_factors |-> << >>, risk_score |-> 0]
      a1 == deadline_risk(a0, project, ts, at)
      a2 == budget_risk(a1, ob)
      a3 == workload_risk(a2, project, ts)
      a4 == velocity_risk(a3, ts)
      risk_score == cap_risk_score(a4.risk_score)
  IN [overall_risk_score |-> risk_score,
      risk_level |-> risk_level(risk_score),
      risk_factors |-> sort_by_impact(a4.risk_factors),
      recommendations |-> generate_risk_recommendations(a4.risk_factors)]

get_risk_assessment(project_id, user_id) ==
  IF project_id \notin DOMAIN projects
  THEN Fails("get_risk_assessment", user_id, project_id, "NotFound")
  ELSE IF ~is_member_or_owner(projects[project_id], user_id)
  THEN Fails("get_risk_assessment", user_id, project_id, "PermissionError")
  ELSE \E ob \in BudgetFirst(project_id) :
       /\ res' = Result("get_risk_assessment", user_id, project_id, "returned",
                        risk_assessment(projects[project_id], TasksOf(project_id),
                                        ob, now))
       /\ UNCHANGED store

(* ================ AnalyticsService.get_productivity_metrics =========== *)
\* for i in range(12): the number of weekly windows.
ProductivityWeeks == 12

\* Task.query.filter_by(owner_id=user_id), and project_id when one is given.
TasksOwnedBy(user_id, project_id) ==
  SelectSeq(tasks, LAMBDA t : t.owner_id = user_id
                              /\ (Has(project_id) => t.project_id = Val(project_id)))

\* The entry of tasks_completed_per_week for the week that ends i weeks ago.
week_entry(ts, at, i) ==
  LET week_start == at - (i + 1) * 7 * TicksPerDay
      week_end == at - i * 7 * TicksPerDay
  IN [week |-> date_key(week_start),
      completed |->
        Len(SelectSeq(ts, LAMBDA t :
              /\ t.status = "completed"
              /\ Has(t.last_progress_update)
              /\ week_start <= Val(t.last_progress_update)
              /\ Val(t.last_progress_update) <= week_end))]

\* for i in range(12): append; then reverse().
week_data_of(ts, at) ==
  [k \in 1..ProductivityWeeks |-> week_entry(ts, at, ProductivityWeeks - k)]

\* The payload; rounded numbers are in tenths.
productivity_metrics(ts, at) ==
  LET count(st) == Len(SelectSeq(ts, LAMBDA t : t.status = st))
      total_tasks == Len(ts)
      completed_tasks == count("completed")
      completion_rate == IF total_tasks > 0
                         THEN Frac(completed_tasks * 100, total_tasks) ELSE FInt(0)
      timed == SelectSeq(ts, LAMBDA t : t.status = "completed" /\ Has(t.created_at))
      completed_task_times == [k \in 1..Len(timed) |-> days(at - Val(timed[k].created_at))]
      avg_completion_time ==
        IF Len(timed) > 0 THEN Frac(SumSeq(completed_task_times), Len(timed))
        ELSE FInt(0)
  IN [total_tasks |-> total_tasks,
      completed_tasks |-> completed_tasks,
      in_progress_tasks |-> count("in_progress"),
      pending_tasks |-> count("pending"),
      overdue_tasks |-> Len(SelectSeq(ts, LAMBDA t : is_overdue(t, at))),
      completion_rate |-> round1(completion_rate),
      avg_completion_time_days |-> round1(avg_completion_time),
      tasks_completed_per_week |-> week_data_of(ts, at)]

\* What a call of get_productivity_metrics ends in.  There is no membership
\* check: the tasks are selected by their owner.  project_id is optional.
productivity_outcome(user_id, project_id) ==
  IF has_null_status(TasksOwnedBy(user_id, project_id))
  THEN [outcome |-> "AttributeError", payload |-> NoPayload]
  ELSE [outcome |-> "returned",
        payload |-> productivity_metrics(TasksOwnedBy(user_id, project_id), now)]

get_productivity_metrics(user_id, project_id) ==
  /\ res' = Result("get_productivity_metrics", user_id,
                   IF Has(project_id) THEN Val(project_id) ELSE 0,
                   productivity_outcome(user_id, project_id).outcome,
                   productivity_outcome(user_id, project_id).payload)
  /\ UNCHANGED store

(* ================ AnalyticsService.get_resource_utilization =========== *)
\* The order in which a query returns its rows is not fixed by the code.
Orderings(S) ==
  {f \in [1..Cardinality(S) -> S] : \A i, j \in 1..Cardinality(S) : f[i] = f[j] => i = j}

total_amount(es) == SumSet([e \in es |-> e.amount], es)

\* for i in range(12): the number of monthly windows.
UtilizationMonths == 12

\* month_start <= e.incurred_at <= month_end
in_month_window(e, month_start, month_end) ==
  month_start <= e.incurred_at /\ e.incurred_at <= month_end

\* The entry of monthly_expenses for the window that starts i * 30 days before
\* the first of the current month.
monthly_expenses_entry(es, at, i) ==
  LET month_start == replace_day_1(at) - i * 30 * TicksPerDay
      month_end == month_start + 30 * TicksPerDay
  IN [month |-> month_key(month_start),
      amount |-> total_amount({e \in es : in_month_window(e, month_start, month_end)})]

\* for i in range(12): append; then reverse().
monthly_expenses_of(es, at) ==
  [k \in 1..UtilizationMonths |-> monthly_expenses_entry(es, at, UtilizationMonths - k)]

\* expenses_by_category[expense.category or 'Uncategorized'] += amount
expenses_by_category(es) ==
  LET name(e) == IF Has(e.category) THEN Val(e.category) ELSE "Uncategorized"
  IN [c \in {name(e) : e \in es} |-> total_amount({e \in es : name(e) = c})]

resource_utilization(ts, ob, es, at) ==
  LET n_completed == Len(SelectSeq(ts, LAMBDA t : t.status = "completed"))
      total_expenses == total_amount(es)
  IN [budget |->
        IF Has(ob)
        THEN Some([allocated_amount |-> Val(ob).allocated_amount,
                   spent_amount |-> Val(ob).spent_amount,
                   remaining_amount |-> remaining_amount(Val(ob)),
                   utilization_percentage |-> utilization_percentage(Val(ob)),
                   is_over_budget |-> Val(ob).spent_amount > Val(ob).allocated_amount])
        ELSE None,
      total_expenses |-> total_expenses,
      expenses_by_category |-> expenses_by_category(es),
      monthly_expenses |-> monthly_expenses_of(es, at),
      cost_per_completed_task |->
        round2(IF n_completed > 0 THEN Frac(total_expenses, n_completed) ELSE FInt(0)),
      expenses_count |-> Cardinality(es)]

get_resource_utilization(project_id, user_id) ==
  IF project_id \notin DOMAIN projects
  THEN Fails("get_resource_utilization", user_id, project_id, "NotFound")
  ELSE IF ~is_project_member(projects[project_id], user_id)
  THEN Fails("get_resource_utilization", user_id, project_id, "PermissionError")
  ELSE IF has_null_status(TasksOf(project_id))
  THEN Fails("get_resource_utilization", user_id, project_id, "AttributeError")
  ELSE \E ob \in BudgetFirst(project_id) :
       /\ res' = Result("get_resource_utilization", user_id, project_id, "returned",
                        resource_utilization(TasksOf(project_id), ob,
                                             ExpensesOf(project_id), now))
       /\ UNCHANGED store

(* ============== FinanceService.get_budget_variance_analysis =========== *)
\* for i in range(6): the number of monthly windows.
VarianceMonths == 6
\* _get_variance_status
get_variance_status(variance_percentage) ==
  LET a == IF variance_percentage[1] < 0
           THEN <<-variance_percentage[1], variance_percentage[2]>>
           ELSE variance_percentage
  IN IF FLe(a, FInt(5)) THEN "on_track"
     ELSE IF FLe(a, FInt(15)) THEN "minor_variance"
     ELSE IF FLe(a, FInt(30)) THEN "significant_variance"
     ELSE "critical_variance"

\* The `except Exception` branch: a normal payload that carries the message.
variance_error_payload(exc) ==
  [has_budget |-> FALSE, message |-> exc, budget_amount |-> 0, total_spent |-> 0,
   total_variance |-> 0, variance_percentage |-> 0,
   category_analysis |-> << >>, monthly_variance |-> << >>,
   cost_drivers |-> << >>, status |-> "error"]

\* expense.category if expense.category else 'General'
category_of(expense) ==
  IF Has(expense.category) THEN Val(expense.category) ELSE "General"

\* The set of categories among the expenses, {'General'} when there is none.
unique_categories(es) ==
  IF es = {} THEN {"General"} ELSE {category_of(e) : e \in es}

\* Variant of category_entry splitting the allocation over the expenses
\* instead of over the distinct categories.
category_entry_per_expense(budget, es, category) ==
  LET n == Cardinality(es)
      planned_per_category ==
        IF n > 0 THEN Frac(budget.allocated_amount, n) ELSE FInt(0)
      category_expenses == {e \in es : category_of(e) = category}
      actual_amount == FInt(total_amount(category_expenses))
      variance == FSub(actual_amount, planned_per_category)
      variance_percentage ==
        IF FLt(FInt(0), planned_per_category)
        THEN FMul(FDiv(variance, planned_per_category), FInt(100)) ELSE FInt(0)
  IN [planned |-> round2(planned_per_category),
      actual |-> round2(actual_amount),
      variance |-> round2(variance),
      variance_percentage |-> round1(variance_percentage),
      expense_count |-> Cardinality(category_expenses)]

\* category_analysis[category]: money in hundredths, percentages in tenths.
category_entry(budget, es, category) ==
  LET n == Cardinality(unique_categories(es))
      planned_per_category ==
        IF n > 0 THEN Frac(budget.allocated_amount, n) ELSE FInt(0)
      category_expenses == {e \in es : category_of(e) = category}
      actual_amount == FInt(total_amount(category_expenses))
      variance == FSub(actual_amount, planned_per_category)
      variance_percentage ==
        IF FLt(FInt(0), planned_per_category)
        THEN FMul(FDiv(variance, planned_per_category), FInt(100)) ELSE FInt(0)
  IN [planned |-> round2(planned_per_category),
      actual |-> round2(actual_amount),
      variance |-> round2(variance),
      variance_percentage |-> round1(variance_percentage),
      expense_count |-> Cardinality(category_expenses)]

\* The entry of monthly_variance for the window that starts i * 30 days
\* before the first of the current month.
monthly_variance_entry(budget, es, at, i) ==
  LET month_start == replace_day_1(at) - i * 30 * TicksPerDay
      month_end == month_start + 30 * TicksPerDay
      month_expenses == {e \in es : in_month_window(e, month_start, month_end)}
      month_actual == FInt(total_amount(month_expenses))
      month_planned == IF budget.allocated_amount > 0
                       THEN Frac(budget.allocated_amount, 12) ELSE FInt(0)
      variance == FSub(month_actual, month_planned)
      variance_percentage ==
        IF FLt(FInt(0), month_planned)
        THEN FMul(FDiv(variance, month_planned), FInt(100)) ELSE FInt(0)
  IN [month |-> month_key(month_start),
      planned |-> round2(month_planned),
      actual |-> round2(month_actual),
      variance |-> round2(variance),
      variance_percentage |-> round1(variance_percentage)]

\* Variant of monthly_variance_of that leaves out the windows without
\* expenses.
monthly_variance_of_nonempty(budget, es, at) ==
  SelectSeq([k \in 1..VarianceMonths |->
               monthly_variance_entry(budget, es, at, VarianceMonths - k)],
            LAMBDA m : m.actual # 0)

\* for i in range(6): append; then reverse().
monthly_variance_of(budget, es, at) ==
  [k \in 1..VarianceMonths |-> monthly_variance_entry(budget, es, at, VarianceMonths - k)]

Abs(x) == IF x < 0 THEN -x ELSE x

\* The cost driver of a category whose reported variance percentage is more
\* than 20 in absolute value.
cost_driver(category, data) ==
  [category |-> category, variance |-> data.variance,
   variance_percentage |-> data.variance_percentage,
   impact |-> IF Abs(data.variance_percentage) > 500 THEN "high" ELSE "medium"]

\* Variant of is_cost_driver that also flags a variance of exactly 20%.
is_cost_driver_inclusive(data) == Abs(data.variance_percentage) >= 200

is_cost_driver(data) == Abs(data.variance_percentage) > 200

RECURSIVE insert_by_abs_variance(_, _)
insert_by_abs_variance(sorted, x) ==
  IF sorted = << >> THEN <<x>>
  ELSE IF Abs(Head(sorted).variance) >= Abs(x.variance)
       THEN <<Head(sorted)>> \o insert_by_abs_variance(Tail(sorted), x)
       ELSE <<x>> \o sorted

RECURSIVE sort_by_abs_variance(_)
\* cost_drivers.sort(key=abs(variance), reverse=True): stable, descending.
sort_by_abs_variance(ds) ==
  IF ds = << >> THEN << >>
  ELSE insert_by_abs_variance(sort_by_abs_variance(SubSeq(ds, 1, Len(ds) - 1)),
                              ds[Len(ds)])

\* The payload of the try body, money in hundredths.  `order` is the order in
\* which the set of categories is iterated.  (recommendations are not part of
\* this payload.)
budget_variance(ob, es, order, at) ==
  IF ~Has(ob)
  THEN [has_budget |-> FALSE, message |-> "no_budget", budget_amount |-> 0,
        total_spent |-> 0, total_variance |-> 0, variance_percentage |-> 0,
        category_analysis |-> << >>, monthly_variance |-> << >>,
        cost_drivers |-> << >>, status |-> "no_budget"]
  ELSE
    LET budget == Val(ob)
        category_analysis ==
          [c \in unique_categories(es) |-> category_entry(budget, es, c)]
        flagged == SelectSeq(order, LAMBDA c : is_cost_driver(category_analysis[c]))
        cost_drivers ==
          [k \in 1..Len(flagged) |-> cost_driver(flagged[k], category_analysis[flagged[k]])]
        total_spent == total_amount(es)
        total_variance == total_spent - budget.allocated_amount
        variance_percentage ==
          IF budget.allocated_amount > 0
          THEN Frac(total_variance * 100, budget.allocated_amount) ELSE FInt(0)
    IN [has_budget |-> TRUE, message |-> "",
        budget_amount |-> round2(FInt(budget.allocated_amount)),
        total_spent |-> round2(FInt(total_spent)),
        total_variance |-> round2(FInt(total_variance)),
        variance_percentage |-> round1(variance_percentage),
        category_analysis |-> category_analysis,
        monthly_variance |-> monthly_variance_of(budget, es, at),
        cost_drivers |-> sort_by_abs_variance(cost_drivers),
        status |-> get_variance_status(variance_percentage)]

\* Whatever the try body raises is caught and turned into a returned payload.
get_budget_variance_analysis(user_id, project_id) ==
  /\ UNCHANGED store
  /\ IF project_id \notin DOMAIN projects
     THEN res' = Result("get_budget_variance_analysis", user_id, project_id,
                        "returned", variance_error_payload("NotFound"))
     ELSE IF ~is_member_or_owner(projects[project_id], user_id)
     THEN res' = Result("get_budget_variance_analysis", user_id, project_id,
                        "returned", variance_error_payload("PermissionError"))
     ELSE \E ob \in BudgetFirst(project_id) :
          \E order \in Orderings(unique_categories(ExpensesOf(project_id))) :
            res' = Result("get_budget_variance_analysis", user_id, project_id,
                          "returned",
                          budget_variance(ob, ExpensesOf(project_id), order, now))

(* ================= FinanceService.get_expense_forecasting ============= *)
\* Forecast horizons a caller asks for (3 is the default).
ForecastMonths == {1, 3}

RECURSIVE group_by_month(_, _)
\* monthly_expenses[month_key] += expense.amount over the rows in query order:
\* a list of <<month, total>> in the order the months first appear (the order
\* in which a dict keeps its keys).
group_by_month(rows, acc) ==
  IF rows = << >> THEN acc
  ELSE LET expense == Head(rows)
           key == month_key(expense.incurred_at)
           at == {i \in DOMAIN acc : acc[i][1] = key}
           acc2 == IF at = {} THEN Append(acc, <<key, expense.amount>>)
                   ELSE [acc EXCEPT ![Val(at)] = <<key, @[2] + expense.amount>>]
       IN group_by_month(Tail(rows), acc2)

\* Variant of regression_slope whose denominator leaves sum_x unsquared.
regression_slope_unsquared(y) ==
  LET n == Len(y)
      sum_x == SumSeq([i \in 1..n |-> i - 1])
      sum_y == SumSeq(y)
      sum_xy == SumSeq([i \in 1..n |-> (i - 1) * y[i]])
      sum_x2 == SumSeq([i \in 1..n |-> (i - 1) * (i - 1)])
      denominator == n * sum_x2 - sum_x
  IN IF denominator # 0 THEN Frac(n * sum_xy - sum_x * sum_y, denominator)
     ELSE FInt(0)

\* The least-squares slope over x = 0..n-1, 0 when the denominator is 0.
regression_slope(y) ==
  LET n == Len(y)
      sum_x == SumSeq([i \in 1..n |-> i - 1])
      sum_y == SumSeq(y)
      sum_xy == SumSeq([i \in 1..n |-> (i - 1) * y[i]])
      sum_x2 == SumSeq([i \in 1..n |-> (i - 1) * (i - 1)])
      denominator == n * sum_x2 - sum_x * sum_x
  IN IF denominator # 0 THEN Frac(n * sum_xy - sum_x * sum_y, denominator)
     ELSE FInt(0)

\* _calculate_forecast_confidence.  cv = sqrt(variance) / mean is compared
\* through its square: cv < c  <=>  variance < c^2 * mean^2  (mean > 0), and
\* cv = 0 when the mean is not positive.
calculate_forecast_confidence(historical_amounts, trend_slope) ==
  IF Len(historical_amounts) < 3 THEN "low"
  ELSE
    LET ys == [k \in 1..Len(historical_amounts) |-> FInt(historical_amounts[k])]
        variance == FVar(ys)
        mean_amount == FMean(ys)
        mean2 == FMul(mean_amount, mean_amount)
        cv_below_02 == IF FLt(FInt(0), mean_amount)
                       THEN FLt(FMul(variance, FInt(25)), mean2) ELSE TRUE
        cv_below_05 == IF FLt(FInt(0), mean_amount)
                       THEN FLt(FMul(variance, FInt(4)), mean2) ELSE TRUE
    IN IF cv_below_02 /\ FLt(FAbs(trend_slope), FMul(mean_amount, Frac(1, 10)))
       THEN "high"
       ELSE IF cv_below_05 THEN "medium"
       ELSE "low"

\* Variant of predicted_amount without the max(0, ...) floor.
predicted_amount_unfloored(avg_monthly, trend_slope, n, i) ==
  round2(FAdd(avg_monthly, FMul(trend_slope, FInt(n + i))))

\* max(0, avg_monthly + trend_slope * (len(historical_amounts) + i)), rounded
\* to hundredths.
predicted_amount(avg_monthly, trend_slope, n, i) ==
  round2(FMax(FInt(0), FAdd(avg_monthly, FMul(trend_slope, FInt(n + i)))))

\* The `except Exception` branch.
forecast_error_payload(exc, forecast_months) ==
  [forecast_available |-> FALSE, message |-> exc, data_points |-> 0,
   forecast_period_months |-> forecast_months, forecast_data |-> << >>,
   total_forecast |-> 0]

\* The payload of the try body, money in hundredths.  (budget_impact,
\* category_forecasts and recommendations are not part of this payload.)
expense_forecast(rows, forecast_months, at) ==
  IF Len(rows) < 3
  THEN [forecast_available |-> FALSE, message |-> "insufficient_data",
        data_points |-> Len(rows), forecast_period_months |-> forecast_months,
        forecast_data |-> << >>, total_forecast |-> 0]
  ELSE
    LET monthly_expenses == group_by_month(rows, << >>)
        historical_amounts ==
          [i \in 1..Len(monthly_expenses) |-> monthly_expenses[i][2]]
        n == Len(historical_amounts)
        avg_monthly == IF n < 2 THEN FInt(historical_amounts[1])
                       ELSE Frac(SumSeq(historical_amounts), n)
        trend_slope == IF n < 2 THEN FInt(0) ELSE regression_slope(historical_amounts)
        current_month == replace_day_1(at)
        forecast_data ==
          [k \in 1..forecast_months |->
             [month |-> month_key(current_month + (k - 1) * 30 * TicksPerDay),
              predicted_amount |-> predicted_amount(avg_monthly, trend_slope, n, k - 1),
              confidence |->
                calculate_forecast_confidence(historical_amounts, trend_slope)]]
    IN [forecast_available |-> TRUE,
        forecast_period_months |-> forecast_months,
        months_analyzed |-> n,
        average_monthly_spending |-> round2(avg_monthly),
        trend_direction |->
          IF FLt(FInt(5), trend_slope) THEN "increasing"
          ELSE IF FLt(trend_slope, FInt(-5)) THEN "decreasing" ELSE "stable",
        trend_rate |-> round2(trend_slope),
        forecast_data |-> forecast_data,
        total_forecast |->
          SumSeq([k \in 1..forecast_months |-> forecast_data[k].predicted_amount])]

\* Whatever the try body raises is caught and turned into a returned payload.
get_expense_forecasting(user_id, project_id, forecast_months) ==
  /\ UNCHANGED store
  /\ IF project_id \notin DOMAIN projects
     THEN res' = Result("get_expense_forecasting", user_id, project_id,
                        "returned", forecast_error_payload("NotFound", forecast_months))
     ELSE IF ~is_member_or_owner(projects[project_id], user_id)
     THEN res' = Result("get_expense_forecasting", user_id, project_id, "returned",
                        forecast_error_payload("PermissionError", forecast_months))
     ELSE \E rows \in Orderings(ExpensesOf(project_id)) :
          res' = Result("get_expense_forecasting", user_id, project_id,
                        "returned", expense_forecast(rows, forecast_months, now))

(* ================== AnalyticsService.get_trend_analysis =============== *)
\* Windows, in days, a caller asks for.
TrendDays == {0, 2, 15}

\* The mean of a list of numbers, 0 for the empty list.
mean_or_zero(xs) == IF Len(xs) > 0 THEN Frac(SumSeq(xs), Len(xs)) ELSE FInt(0)

\* xs[-28:-14] and xs[-14:]
earlier_slice(xs) ==
  IF Len(xs) <= 14 THEN << >> ELSE SubSeq(xs, Max2(1, Len(xs) - 27), Len(xs) - 14)
recent_slice(xs) == SubSeq(xs, Max2(1, Len(xs) - 13), Len(xs))

\* The entry of productivity_trend for the day i days before end_date.
trend_entry(ts, end_date, i) ==
  LET day == date_key(end_date - i * TicksPerDay)
      on_day == SelectSeq(ts, LAMBDA t : Has(t.created_at)
                                         /\ date_key(Val(t.created_at)) = day)
      created == Len(on_day)
      completed == Len(SelectSeq(on_day, LAMBDA t : t.status = "completed"))
  IN [date |-> day,
      productivity_score |-> round1(Frac(completed * 100, Max2(created, 1))),
      tasks_created |-> created,
      tasks_completed |-> completed]

\* The payload built from the daily entries; rounded numbers are in tenths.
\* (insights are not part of this payload.)
trend_payload(start_date, end_date, productivity_trend) ==
  LET scores == [k \in DOMAIN productivity_trend |->
                   productivity_trend[k].productivity_score]
      recent_avg == mean_or_zero(recent_slice(scores))
      earlier_avg == mean_or_zero(earlier_slice(scores))
      velocity == IF FLt(recent_avg, earlier_avg) THEN FSub(earlier_avg, recent_avg)
                  ELSE FSub(recent_avg, earlier_avg)
  IN [period |-> [start_date |-> start_date, end_date |-> end_date],
      productivity_trend |-> productivity_trend,
      trend_summary |->
        [direction |-> IF FLt(earlier_avg, recent_avg) THEN "improving"
                       ELSE IF FLt(recent_avg, earlier_avg) THEN "declining"
                       ELSE "stable",
         velocity |-> round_to(velocity, 1),
         recent_average |-> round_to(recent_avg, 1),
         earlier_average |-> round_to(earlier_avg, 1)]]

\* The daily entries, oldest first, are computed once and the payload is built
\* from them.
trend_analysis(owned, end_date, n_days) ==
  LET start_date == end_date - n_days * TicksPerDay
      ts == SelectSeq(owned, LAMBDA t : Has(t.created_at)
                                        /\ Val(t.created_at) >= start_date)
  IN CHOOSE payload \in
       {trend_payload(start_date, end_date, productivity_trend) :
          productivity_trend \in
            {[k \in 1..n_days |-> trend_entry(ts, end_date, n_days - k)]}} : TRUE

get_trend_analysis(user_id, project_id, n_days) ==
  /\ res' = Result("get_trend_analysis", user_id,
                   IF Has(project_id) THEN Val(project_id) ELSE 0, "returned",
                   trend_analysis(TasksOwnedBy(user_id, project_id), now, n_days))
  /\ UNCHANGED store

(* =============== AnalyticsService.get_performance_prediction ========== *)
\* timedelta(days=60): the days of history analysed.
PredictionDays == 60

\* strftime('%Y-W%U'): the week a timestamp falls in (weeks of 7 days).
week_key(t) == t \div (7 * TicksPerDay)

RECURSIVE group_by_week(_, _)
\* weekly_data[week]['created'] += 1 (and ['completed'] for a completed task)
\* over the tasks in query order: a list of <<week, created, completed>> in
\* the order the weeks first appear.
group_by_week(ts, acc) ==
  IF ts = << >> THEN acc
  ELSE LET task == Head(ts)
           done == IF task.status = "completed" THEN 1 ELSE 0
           key == week_key(Val(task.created_at))
           at == {i \in DOMAIN acc : acc[i][1] = key}
           acc2 == IF ~Has(task.created_at) THEN acc
                   ELSE IF at = {} THEN Append(acc, <<key, 1, done>>)
                   ELSE [acc EXCEPT ![Val(at)] = <<key, @[2] + 1, @[3] + done>>]
       IN group_by_week(Tail(ts), acc2)

\* The least-squares slope of a list of fractions over x = 0..n-1, 0 when the
\* denominator is 0.
regression_slope_of_rates(y) ==
  LET n == Len(y)
      sum_x == SumSeq([i \in 1..n |-> i - 1])
      sum_y == FSumSeq(y)
      sum_xy == FSumSeq([i \in 1..n |-> FMul(FInt(i - 1), y[i])])
      sum_x2 == SumSeq([i \in 1..n |-> (i - 1) * (i - 1)])
      denominator == n * sum_x2 - sum_x * sum_x
  IN IF denominator # 0
     THEN FNorm(FDiv(FSub(FMul(FInt(n), sum_xy), FMul(FInt(sum_x), sum_y)),
                     FInt(denominator)))
     ELSE FInt(0)

\* intercept = (sum_y - slope * sum_x) / n
regression_intercept(y, slope) ==
  LET n == Len(y)
      sum_x == SumSeq([i \in 1..n |-> i - 1])
  IN FNorm(FDiv(FSub(FSumSeq(y), FMul(slope, FInt(sum_x))), FInt(n)))

\* 'high' if variance < 100 else 'medium' if variance < 400 else 'low'
prediction_confidence(weekly_rates) ==
  LET variance == IF Len(weekly_rates) > 1 THEN FVar(weekly_rates) ELSE FInt(0)
  IN IF FLt(variance, FInt(100)) THEN "high"
     ELSE IF FLt(variance, FInt(400)) THEN "medium"
     ELSE "low"

\* max(0, min(100, slope * next_week_x + intercept))
clamp_rate(predicted_rate) == FMax(FInt(0), FMin(FInt(100), predicted_rate))

\* The payload; rates in tenths, the slope in hundredths.  (recommendations
\* are not part of this payload.)
performance_prediction(owned, end_date) ==
  LET start_date == end_date - PredictionDays * TicksPerDay
      ts == SelectSeq(owned, LAMBDA t : Has(t.created_at)
                                        /\ Val(t.created_at) >= start_date)
      weekly_data == group_by_week(ts, << >>)
      weekly_rates ==
        [k \in 1..Len(weekly_data) |->
           FNorm(Frac(weekly_data[k][3] * 100, Max2(weekly_data[k][2], 1)))]
  IN IF Len(weekly_rates) < 3
     THEN [available |-> FALSE, prediction_confidence |-> "low",
           predicted_weekly_completion_rate |-> 0, trend |-> "unknown"]
     ELSE
       LET n == Len(weekly_rates)
           slope == regression_slope_of_rates(weekly_rates)
           intercept == regression_intercept(weekly_rates, slope)
           predicted_rate == clamp_rate(FNorm(FAdd(FMul(slope, FInt(n)), intercept)))
       IN [available |-> TRUE,
           predicted_weekly_completion_rate |-> round1(predicted_rate),
           trend |-> IF FLt(FInt(2), slope) THEN "improving"
                     ELSE IF FLt(slope, FInt(-2)) THEN "declining" ELSE "stable",
           trend_slope |-> round2(slope),
           prediction_confidence |-> prediction_confidence(weekly_rates),
           historical_average |-> round1(FMean(weekly_rates)),
           data_points |-> n]

get_performance_prediction(user_id, project_id) ==
  /\ res' = Result("get_performance_prediction", user_id,
                   IF Has(project_id) THEN Val(project_id) ELSE 0, "returned",
                   performance_prediction(TasksOwnedBy(user_id, project_id), now))
  /\ UNCHANGED store

(* ================== AnalyticsService.get_project_stats ================ *)
\* The three computations run one after the other and the first exception
\* propagates.  get_productivity_metrics runs first and checks neither the
\* project nor the membership; get_project_health makes the checks that
\* get_resource_utilization has already passed.
get_project_stats(user_id, project_id) ==
  IF productivity_outcome(user_id, Some(project_id)).outcome # "returned"
  THEN Fails("get_project_stats", user_id, project_id,
             productivity_outcome(user_id, Some(project_id)).outcome)
  ELSE IF project_id \notin DOMAIN projects
  THEN Fails("get_project_stats", user_id, project_id, "NotFound")
  ELSE IF ~is_project_member(projects[project_id], user_id)
  THEN Fails("get_project_stats", user_id, project_id, "PermissionError")
  ELSE IF has_null_status(TasksOf(project_id))
  THEN Fails("get_project_stats", user_id, project_id, "AttributeError")
  ELSE \E ob \in BudgetFirst(project_id) :
       /\ res' = Result("get_project_stats", user_id, project_id, "returned",
                        [project_id |-> project_id,
                         productivity_metrics |->
                           productivity_outcome(user_id, Some(project_id)).payload,
                         resource_utilization |->
                           resource_utilization(TasksOf(project_id), ob,
                                                ExpensesOf(project_id), now),
                         project_health |-> project_health(TasksOf(project_id), now)])
       /\ UNCHANGED store

(* ================= FinanceService.get_project_financials ============== *)
\* The payload without project_name and recent_expenses.  monthly_expenses is
\* the grouped query: one total per month that has an expense.
project_financials(project_id, ob, es) ==
  [project_id |-> project_id,
   budget |-> ob,
   total_expenses |-> total_amount(es),
   expenses_by_category |-> expenses_by_category(es),
   monthly_expenses |->
     [m \in {month_key(e.incurred_at) : e \in es} |->
        total_amount({e \in es : month_key(e.incurred_at) = m})],
   expenses_count |-> Cardinality(es),
   remaining_budget |-> IF Has(ob) THEN Some(remaining_amount(Val(ob))) ELSE None,
   budget_utilization |->
     IF Has(ob) THEN Some(utilization_percentage(Val(ob))) ELSE None,
   is_over_budget |->
     IF Has(ob) THEN Some(Val(ob).spent_amount > Val(ob).allocated_amount) ELSE None]

\* Variant of get_project_financials that brings the budget's spent_amount in
\* line with the expenses it has just summed, and commits.
get_project_financials_syncing(user_id, project_id) ==
  IF project_id \notin DOMAIN projects
  THEN Fails("get_project_financials", user_id, project_id, "NotFound")
  ELSE IF ~is_project_member(projects[project_id], user_id)
  THEN Fails("get_project_financials", user_id, project_id, "PermissionError")
  ELSE \E ob \in BudgetFirst(project_id) :
       /\ res' = Result("get_project_financials", user_id, project_id, "returned",
                        project_financials(project_id, ob, ExpensesOf(project_id)))
       /\ budgets' =
            IF Has(ob)
            THEN (budgets \ {Val(ob)})
                 \cup {[Val(ob) EXCEPT !.spent_amount =
                                         total_amount(ExpensesOf(project_id))]}
            ELSE budgets
       /\ UNCHANGED <<projects, tasks, expenses, notifications,
                      next_budget_id, next_expense_id, now, in_flight>>

get_project_financials(user_id, project_id) ==
  IF project_id \notin DOMAIN projects
  THEN Fails("get_project_financials", user_id, project_id, "NotFound")
  ELSE IF ~is_project_member(projects[project_id], user_id)
  THEN Fails("get_project_financials", user_id, project_id, "PermissionError")
  ELSE \E ob \in BudgetFirst(project_id) :
       /\ res' = Result("get_project_financials", user_id, project_id, "returned",
                        project_financials(project_id, ob, ExpensesOf(project_id)))
       /\ UNCHANGED store

(* ===================== FinanceService.get_expenses ==================== *)
\* The filters a caller passes: none, or a category to select.
ExpenseFilters == {None, Some([category |-> None])}

\* query.filter(Expense.category == filters['category']): a comparison with
\* NULL selects no row.
filtered_expenses(project_id, filters) ==
  IF Has(filters)
  THEN {e \in ExpensesOf(project_id) :
          Has(Val(filters).category) /\ e.category = Val(filters).category}
  ELSE ExpensesOf(project_id)

\* order_by(Expense.incurred_at.desc()): the order of rows with equal
\* incurred_at is not determined.
get_expenses(user_id, project_id, filters) ==
  IF project_id \notin DOMAIN projects
  THEN Fails("get_expenses", user_id, project_id, "NotFound")
  ELSE IF ~is_project_member(projects[project_id], user_id)
  THEN Fails("get_expenses", user_id, project_id, "PermissionError")
  ELSE \E rows \in Orderings(filtered_expenses(project_id, filters)) :
       /\ \A i, j \in DOMAIN rows :
            i < j => rows[i].incurred_at >= rows[j].incurred_at
       /\ res' = Result("get_expenses", user_id, project_id, "returned",
                        [expenses |-> rows])
       /\ UNCHANGED store

(* ============= FinanceService.get_cost_optimization_analysis ========== *)
\* The payload of the handler of the enclosing try, which catches the 404 and
\* the PermissionError as well.
cost_optimization_error_payload(exc) ==
  [has_expenses |-> FALSE, error |-> Some(exc), total_spending |-> 0,
   category_breakdown |-> << >>, cost_efficiency |-> None]

\* 'General' stands for a missing category here.
cost_category_totals(es) ==
  LET name(e) == IF Has(e.category) THEN Val(e.category) ELSE "General"
  IN [c \in {name(e) : e \in es} |-> total_amount({e \in es : name(e) = c})]

\* The payload without optimization_opportunities, potential_total_savings
\* and recommendations.  cost_per_completed_task is a fraction; a task without
\* a status is not a completed one.
cost_optimization(ts, es) ==
  IF es = {}
  THEN [has_expenses |-> FALSE, error |-> None, total_spending |-> 0,
        category_breakdown |-> << >>, cost_efficiency |-> None]
  ELSE LET n_completed == Len(SelectSeq(ts, LAMBDA t : t.status = "completed"))
       IN [has_expenses |-> TRUE, error |-> None,
           total_spending |-> total_amount(es),
           category_breakdown |-> cost_category_totals(es),
           cost_efficiency |->
             IF n_completed > 0
             THEN Some([cost_per_completed_task |-> <<total_amount(es), n_completed>>,
                        total_completed_tasks |-> n_completed])
             ELSE None]

get_cost_optimization_analysis(user_id, project_id) ==
  /\ UNCHANGED store
  /\ IF project_id \notin DOMAIN projects
     THEN res' = Result("get_cost_optimization_analysis", user_id, project_id,
                        "returned", cost_optimization_error_payload("NotFound"))
     ELSE IF ~is_member_or_owner(projects[project_id], user_id)
     THEN res' = Result("get_cost_optimization_analysis", user_id, project_id,
                        "returned", cost_optimization_error_payload("PermissionError"))
     ELSE res' = Result("get_cost_optimization_analysis", user_id, project_id,
                        "returned",
                        cost_optimization(TasksOf(project_id), ExpensesOf(project_id)))

(* ================== AnalyticsService.get_user_dashboard =============== *)
\* The productivity section when get_productivity_metrics raises.
default_productivity ==
  [total_tasks |-> 0, completed_tasks |-> 0, in_progress_tasks |-> 0,
   pending_tasks |-> 0, overdue_tasks |-> 0, completion_rate |-> 0,
   avg_completion_time_days |-> 0, tasks_completed_per_week |-> << >>]

\* The summary of a project whose health could not be summarised.
default_summary(project_id) ==
  [id |-> project_id, health_score |-> 0, status |-> "unknown",
   total_tasks |-> 0, overdue_tasks |-> 0]

\* The body of the loop over the user's projects: the health fields, or the
\* defaults when get_project_health raises or the health payload lacks one of
\* the keys read (KeyError).
project_summary(project_id, user_id) ==
  LET health == project_health_outcome(project_id, user_id)
  IN IF health.outcome # "returned"
        \/ "overdue_tasks" \notin DOMAIN health.payload
     THEN default_summary(project_id)
     ELSE [id |-> project_id,
           health_score |-> health.payload.health_score,
           status |-> health.payload.status,
           total_tasks |-> health.payload.total_tasks,
           overdue_tasks |-> health.payload.overdue_tasks]

\* The payload.  (recent_activity, user_name and generated_at are not part of
\* this payload.)
user_dashboard(user_id) ==
  LET user_project_ids == user_projects(projects, user_id)
      productivity == productivity_outcome(user_id, None)
      overall_productivity ==
        IF productivity.outcome = "returned" THEN productivity.payload
        ELSE default_productivity
      all_tasks == TasksOwnedBy(user_id, None)
      count(st) == Len(SelectSeq(all_tasks, LAMBDA t : t.status = st))
  IN [user_id |-> user_id,
      total_tasks |-> overall_productivity.total_tasks,
      completed_tasks |-> overall_productivity.completed_tasks,
      productivity_metrics |-> overall_productivity,
      project_summaries |->
        [k \in DOMAIN user_project_ids |-> project_summary(user_project_ids[k], user_id)],
      status_distribution |->
        IF has_null_status(all_tasks)
        THEN [pending |-> 0, in_progress |-> 0, completed |-> 0]
        ELSE [pending |-> count("pending"), in_progress |-> count("in_progress"),
              completed |-> count("completed")],
      projects_count |-> Len(user_project_ids)]

\* Variant of get_user_dashboard without the inner handlers: a failure of the
\* productivity or of a project's health reaches the outer handler, which
\* re-raises it.
get_user_dashboard_aborting(user_id) ==
  /\ UNCHANGED store
  /\ IF user_id \notin Users
     THEN res' = Result("get_user_dashboard", user_id, 0, "NotFound", NoPayload)
     ELSE IF has_null_status(TasksOwnedBy(user_id, None))
             \/ \E p \in DOMAIN projects :
                  /\ user_id \in projects[p].members
                  /\ has_null_status(TasksOf(p))
     THEN res' = Result("get_user_dashboard", user_id, 0, "AttributeError", NoPayload)
     ELSE res' = Result("get_user_dashboard", user_id, 0, "returned",
                        user_dashboard(user_id))

\* User.query.get_or_404 raises for an unknown user and the outer handler
\* re-raises.
get_user_dashboard(user_id) ==
  /\ UNCHANGED store
  /\ IF user_id \notin Users
     THEN res' = Result("get_user_dashboard", user_id, 0, "NotFound", NoPayload)
     ELSE res' = Result("get_user_dashboard", user_id, 0, "returned",
                        user_dashboard(user_id))

(* ========================== the service =============================== *)
\* The current instant (it does not advance within a run).
Today == 100 * TicksPerDay

NoResult == Result("none", 0, 0, "returned", NoPayload)

TheProject == [members |-> {1}, owner_id |-> 2, deadline |-> None]

\* A project with member 1 and owner 2 (who is not a member), no tasks, no
\* budget and no expenses.
Init ==
  /\ projects = [p \in ProjectIds |-> TheProject]
  /\ tasks = << >>
  /\ budgets = {}
  /\ expenses = {}
  /\ notifications = [u \in Users |-> 0]
  /\ next_budget_id = 1
  /\ next_expense_id = 1
  /\ now = Today
  /\ in_flight = NoRequests
  /\ res = NoResult

CreateBudget == \E u \in Users, p \in ProjectArgs, d \in BudgetData : create_budget(u, p, d)
UpdateBudget == \E u \in Users, b \in 1..MaxBudgets, d \in BudgetData : update_budget(u, b, d)
DeleteBudget == \E u \in Users, b \in 1..MaxBudgets : delete_budget(u, b)
AddExpense == \E u \in Users, p \in ProjectArgs, d \in ExpenseData : add_expense(u, p, d)
UpdateExpense == \E u \in Users, e \in 1..MaxExpenses, d \in ExpenseData : update_expense(u, e, d)
DeleteExpense == \E u \in Users, e \in 1..MaxExpenses : delete_expense(u, e)
GetProjectHealth == \E u \in Users, p \in ProjectArgs : get_project_health(p, u)
GetProductivityMetrics ==
  \E u \in Users, p \in Opt(ProjectArgs) : get_productivity_metrics(u, p)
GetTrendAnalysis ==
  \E u \in Users, p \in Opt(ProjectArgs), d \in TrendDays : get_trend_analysis(u, p, d)
GetPerformancePrediction ==
  \E u \in Users, p \in Opt(ProjectArgs) : get_performance_prediction(u, p)
GetProjectStats == \E u \in Users, p \in ProjectArgs : get_project_stats(u, p)
GetProjectFinancials == \E u \in Users, p \in ProjectArgs : get_project_financials(u, p)
GetExpenses ==
  \E u \in Users, p \in ProjectArgs, f \in ExpenseFilters : get_expenses(u, p, f)
GetCostOptimizationAnalysis ==
  \E u \in Users, p \in ProjectArgs : get_cost_optimization_analysis(u, p)
\* User ids a caller may pass: 8 is the id of no user.
GetUserDashboard == \E u \in Users \cup {8} : get_user_dashboard(u)
GetResourceUtilization == \E u \in Users, p \in ProjectArgs : get_resource_utilization(p, u)
GetRiskAssessment == \E u \in Users, p \in ProjectArgs : get_risk_assessment(p, u)
GetBudgetVarianceAnalysis ==
  \E u \in Users, p \in ProjectArgs : get_budget_variance_analysis(u, p)
GetExpenseForecasting ==
  \E u \in Users, p \in ProjectArgs, m \in ForecastMonths : get_expense_forecasting(u, p, m)

Next ==
  \/ CreateBudget
  \/ UpdateBudget
  \/ DeleteBudget
  \/ AddExpense
  \/ UpdateExpense
  \/ DeleteExpense
  \/ GetProductivityMetrics
  \/ GetProjectHealth
  \/ GetResourceUtilization
  \/ GetRiskAssessment
  \/ GetBudgetVarianceAnalysis
  \/ GetExpenseForecasting
  \/ GetTrendAnalysis
  \/ GetPerformancePrediction
  \/ GetUserDashboard
  \/ GetProjectStats
  \/ GetProjectFinancials
  \/ GetExpenses
  \/ GetCostOptimizationAnalysis

Spec == Init /\ [][Next]_vars

(* ================= the analytics as functions of a snapshot =========== *)
\* Each of the following specifications starts from a drawn snapshot of the
\* records and applies one analytics operation to it.
DueDay == Today - 3 * TicksPerDay

\* A task of project 1 owned by user 1, created ten days ago.
Task(status, due_date, last_progress_update) ==
  [project_id |-> 1, owner_id |-> 1, status |-> status, due_date |-> due_date,
   created_at |-> Some(Today - 10 * TicksPerDay),
   last_progress_update |-> last_progress_update]

\* Tasks for the health computation: open tasks with and without a due date
\* (three days ago), completed tasks with and without a due date, completed
\* on the due instant, later the same day, two days and a tick late, or with
\* no completion timestamp.
HealthTasks ==
  {Task(st, due, None) : st \in {"pending", "in_progress"}, due \in Opt({DueDay})}
  \cup {Task("completed", due, upd) :
          due \in Opt({DueDay}),
          upd \in Opt({DueDay, DueDay + 1, DueDay + 2 * TicksPerDay + 1})}

HealthTaskLists == UNION {[1..n -> HealthTasks] : n \in 0..MaxHealthTasks}

InitHealth ==
  /\ projects = [p \in ProjectIds |-> TheProject]
  /\ tasks \in HealthTaskLists
  /\ budgets = {}
  /\ expenses = {}
  /\ notifications = [u \in Users |-> 0]
  /\ next_budget_id = 1
  /\ next_expense_id = 1
  /\ now = Today
  /\ in_flight = NoRequests
  /\ res = NoResult

NextHealth == GetProjectHealth

SpecHealth == InitHealth /\ [][NextHealth]_vars

\* Tasks for the risk assessment: n_completed completed tasks, n_overdue open
\* tasks past their due date and n_open open tasks without one.
RiskTaskList(n_completed, n_overdue, n_open) ==
  [i \in 1..(n_completed + n_overdue + n_open) |->
     IF i <= n_completed THEN Task("completed", None, Some(DueDay))
     ELSE IF i <= n_completed + n_overdue THEN Task("pending", Some(DueDay), None)
     ELSE Task("in_progress", None, None)]

RiskTaskLists ==
  {RiskTaskList(c, o, p) :
     c \in 0..MaxRiskTasks, o \in 0..MaxRiskTasks, p \in 0..MaxRiskTasks}

\* No deadline; a deadline a tick ago, in a tick (both less than a whole day
\* away), in seven days and in eight days.
RiskDeadlines ==
  Opt({Today - 1, Today + 1, Today + 7 * TicksPerDay, Today + 8 * TicksPerDay})

\* No budget; nothing allocated; 100 allocated and spent up to and just over
\* each threshold.
RiskBudgets ==
  {{}} \cup
  {{[id |-> 1, project_id |-> 1, allocated_amount |-> a, spent_amount |-> sp,
     currency |-> "USD"]} :
     <<a, sp>> \in {<<0, 60>>} \cup ({100} \X {75, 76, 90, 91, 100, 101})}

InitRisk ==
  /\ \E members \in {{}, {1}}, deadline \in RiskDeadlines :
       projects = [p \in ProjectIds |->
                     [members |-> members, owner_id |-> 2, deadline |-> deadline]]
  /\ tasks \in {ts \in RiskTaskLists : Len(ts) <= MaxRiskTasks}
  /\ budgets \in RiskBudgets
  /\ expenses = {}
  /\ notifications = [u \in Users |-> 0]
  /\ next_budget_id = 2
  /\ next_expense_id = 1
  /\ now = Today
  /\ in_flight = NoRequests
  /\ res = NoResult

NextRisk == GetRiskAssessment

SpecRisk == InitRisk /\ [][NextRisk]_vars


\* Expenses for the variance analysis: up to MaxVarianceExpenses of them, each
\* without a category or in one of three, each of 120, 150 or 160, all
\* incurred today.
VarianceCategories == Opt({"General", "travel", "software"})

VarianceExpense(id, amount, category) ==
  [id |-> id, project_id |-> 1, amount |-> amount, category |-> category,
   incurred_at |-> Today, created_by |-> 1]

VarianceExpenseSets ==
  UNION {{{VarianceExpense(i, a[i], c[i]) : i \in 1..n} :
            a \in [1..n -> {120, 150, 160}], c \in [1..n -> VarianceCategories]} :
         n \in 0..MaxVarianceExpenses}

\* 1200 allocated, three categories with 500, 400 and 200 spent.
VarianceExample ==
  {VarianceExpense(1, 500, Some("General")), VarianceExpense(2, 400, Some("travel")),
   VarianceExpense(3, 200, Some("software"))}

VarianceBudget(allocated_amount, es) ==
  [id |-> 1, project_id |-> 1, allocated_amount |-> allocated_amount,
   spent_amount |-> total_amount(es), currency |-> "USD"]

InitVariance ==
  /\ projects = [p \in ProjectIds |-> TheProject]
  /\ tasks = << >>
  /\ \/ /\ expenses \in VarianceExpenseSets
        /\ budgets \in {{}} \cup {{VarianceBudget(a, expenses)} : a \in {0, 100, 300}}
     \/ /\ expenses = VarianceExample
        /\ budgets = {VarianceBudget(1200, expenses)}
  /\ notifications = [u \in Users |-> 0]
  /\ next_budget_id = 2
  /\ next_expense_id = MaxVarianceExpenses + 1
  /\ now = Today
  /\ in_flight = NoRequests
  /\ res = NoResult

NextVariance == GetBudgetVarianceAnalysis

SpecVariance == InitVariance /\ [][NextVariance]_vars

\* Records for the time windows.  Completed tasks last updated a tick ago,
\* exactly one week ago and a tick after, exactly twelve weeks ago and a tick
\* before, or never; a task in progress updated a tick ago.
BucketTasks ==
  {Task("completed", None, upd) :
     upd \in Opt({Today - 1, Today - 7 * TicksPerDay, Today - 7 * TicksPerDay + 1,
                  Today - 84 * TicksPerDay, Today - 84 * TicksPerDay - 1})}
  \cup {Task("in_progress", None, Some(Today - 1))}

BucketTaskLists == UNION {[1..n -> BucketTasks] : n \in 0..MaxBucketRecords}

\* Expenses of 60 incurred on the first of the current month (at the current
\* time of day), a tick before, a tick ago, 30 days before the first, and at
\* and just before the start of the oldest of six and of twelve windows.
BucketTimes ==
  LET first == replace_day_1(Today)
  IN {first, first - 1, Today - 1, first - 30 * TicksPerDay,
      first - 150 * TicksPerDay, first - 150 * TicksPerDay - 1,
      first - 330 * TicksPerDay, first - 330 * TicksPerDay - 1}

BucketExpenseSets ==
  UNION {{{[id |-> i, project_id |-> 1, amount |-> 60, category |-> None,
            incurred_at |-> t[i], created_by |-> 1] : i \in 1..n} :
            t \in [1..n -> BucketTimes]} :
         n \in 0..MaxBucketRecords}

InitBuckets ==
  /\ projects = [p \in ProjectIds |-> TheProject]
  /\ \/ tasks \in BucketTaskLists /\ expenses = {}
     \/ tasks = << >> /\ expenses \in BucketExpenseSets
  /\ budgets \in {{}, {VarianceBudget(100, expenses)}}
  /\ notifications = [u \in Users |-> 0]
  /\ next_budget_id = 2
  /\ next_expense_id = MaxBucketRecords + 1
  /\ now = Today
  /\ in_flight = NoRequests
  /\ res = NoResult

NextBuckets ==
  \/ GetProductivityMetrics
  \/ GetResourceUtilization
  \/ GetBudgetVarianceAnalysis
  \/ GetTrendAnalysis

SpecBuckets == InitBuckets /\ [][NextBuckets]_vars

\* Tasks for the performance prediction: up to MaxPredictionTasks tasks of
\* user 1, pending or completed, each created in one of the last three weeks;
\* the list is in the order the query returns them.
PredictionTask(status, weeks_ago) ==
  [project_id |-> 1, owner_id |-> 1, status |-> status, due_date |-> None,
   created_at |-> Some(Today - weeks_ago * 7 * TicksPerDay),
   last_progress_update |-> None]

PredictionTasks ==
  {PredictionTask(st, w) : st \in {"pending", "completed"}, w \in {0, 1, 2}}

PredictionTaskLists == UNION {[1..n -> PredictionTasks] : n \in 0..MaxPredictionTasks}

\* Expenses for the forecast: up to MaxForecastExpenses of them, each of 10,
\* 40 or 45, each in one of three consecutive months.
ForecastExpense(id, amount, month) ==
  [id |-> id, project_id |-> 1, amount |-> amount, category |-> None,
   incurred_at |-> month * 30 * TicksPerDay + TicksPerDay, created_by |-> 1]

ForecastExpenseSets ==
  UNION {{{ForecastExpense(i, a[i], m[i]) : i \in 1..n} :
            a \in [1..n -> {10, 40, 45}], m \in [1..n -> {1, 2, 3}]} :
         n \in 0..MaxForecastExpenses}

InitForecast ==
  /\ projects = [p \in ProjectIds |-> TheProject]
  /\ \/ tasks = << >> /\ expenses \in ForecastExpenseSets
     \/ tasks \in PredictionTaskLists /\ expenses = {}
  /\ budgets = {}
  /\ notifications = [u \in Users |-> 0]
  /\ next_budget_id = 1
  /\ next_expense_id = MaxForecastExpenses + 1
  /\ now = Today
  /\ in_flight = NoRequests
  /\ res = NoResult

NextForecast ==
  \/ GetExpenseForecasting
  \/ GetPerformancePrediction

SpecForecast == InitForecast /\ [][NextForecast]_vars

(* ------------- snapshots for get_user_dashboard ------------------------ *)
\* Two projects: users 1 and 2 are members of the first, user 1 alone of the
\* second; user 3 is a member of neither.
DashboardProjects ==
  (1 :> [members |-> {1, 2}, owner_id |-> 1, deadline |-> None])
  @@ (2 :> [members |-> {1}, owner_id |-> 1, deadline |-> None])

\* Tasks of either project owned by user 1 or 2: pending without a due date,
\* pending and three days overdue, completed, or with a NULL status.
DashboardTask(project_id, owner_id, status, due_date) ==
  [project_id |-> project_id, owner_id |-> owner_id, status |-> status,
   due_date |-> due_date, created_at |-> Some(Today - 10 * TicksPerDay),
   last_progress_update |-> None]

DashboardTasks ==
  {DashboardTask(p, u, k[1], k[2]) :
     p \in {1, 2}, u \in {1, 2},
     k \in {<<"pending", None>>, <<"pending", Some(Today - 3 * TicksPerDay)>>,
            <<"completed", None>>, <<NullStatus, None>>}}

DashboardTaskLists == UNION {[1..n -> DashboardTasks] : n \in 0..MaxDashboardTasks}

InitDashboard ==
  /\ projects = DashboardProjects
  /\ tasks \in DashboardTaskLists
  /\ budgets = {}
  /\ expenses = {}
  /\ notifications = [u \in Users |-> 0]
  /\ next_budget_id = 1
  /\ next_expense_id = 1
  /\ now = Today
  /\ in_flight = NoRequests
  /\ res = NoResult

NextDashboard == GetUserDashboard

SpecDashboard == InitDashboard /\ [][NextDashboard]_vars

(* ------------------- budgets of two projects --------------------------- *)
\* Two projects with member 1 and owner 2.
BudgetProjects == [p \in {1, 2} |-> TheProject]
\* Allocated amounts a caller may pass, a negative one among them, and a
\* currency.
SignedAllocations == {-50, 0, 100}
SignedBudgetData == [allocated_amount : Opt(SignedAllocations), currency : Opt({"EUR"})]

InitBudgets ==
  /\ projects = BudgetProjects
  /\ tasks = << >>
  /\ budgets = {}
  /\ expenses = {}
  /\ notifications = [u \in Users |-> 0]
  /\ next_budget_id = 1
  /\ next_expense_id = 1
  /\ now = Today
  /\ in_flight = NoRequests
  /\ res = NoResult

CreateBudgetSigned ==
  \E u \in Users, p \in {1, 2, 9}, d \in SignedBudgetData : create_budget(u, p, d)
UpdateBudgetSigned ==
  \E u \in Users, b \in 1..MaxBudgets, d \in SignedBudgetData : update_budget(u, b, d)

NextBudgets ==
  \/ CreateBudgetSigned
  \/ UpdateBudgetSigned
  \/ DeleteBudget

SpecBudgets == InitBudgets /\ [][NextBudgets]_vars

(* ------------------- the least-squares fit on its own ------------------ *)
\* Slopes and intercepts of the linear series fitted.
LineSlopes == -2..3
LineIntercepts == -1..2
\* y[x] = a * x + b for x = 0..n-1
Line(a, b, n) == [i \in 1..n |-> a * (i - 1) + b]

\* The fit as get_expense_forecasting computes it (slope of the monthly
\* amounts) and as get_performance_prediction computes it (slope and
\* intercept of the weekly rates).
fit_line(y) ==
  LET rates == [i \in DOMAIN y |-> FInt(y[i])]
  IN [y |-> y,
      trend_slope |-> regression_slope(y),
      slope |-> regression_slope_of_rates(rates),
      intercept |-> regression_intercept(rates, regression_slope_of_rates(rates))]

FitLine ==
  \E a \in LineSlopes, b \in LineIntercepts, n \in 1..MaxSeriesLen :
    /\ res' = Result("fit_line", 0, 0, "returned", fit_line(Line(a, b, n)))
    /\ UNCHANGED store

NextRegression == FitLine

SpecRegression == Init /\ [][NextRegression]_vars

(* --------------- expenses under a budget created first ---------------- *)
\* Allocated amounts of that budget: nothing, less than one expense of 60, and
\* more than one but less than two.
LedgerAllocations == {0, 50, 100}
\* The budget of the project, created while the project had no expense:
\* nothing spent.
FirstBudget(allocated_amount) ==
  [id |-> 1, project_id |-> 1, allocated_amount |-> allocated_amount,
   spent_amount |-> DefaultSpentAmount, currency |-> "USD"]

InitLedger ==
  /\ projects = [p \in ProjectIds |-> TheProject]
  /\ tasks = << >>
  /\ \E a \in LedgerAllocations : budgets = {FirstBudget(a)}
  /\ expenses = {}
  /\ notifications = [u \in Users |-> 0]
  /\ next_budget_id = 2
  /\ next_expense_id = 1
  /\ now = Today
  /\ in_flight = NoRequests
  /\ res = NoResult

\* The expense operations, and update_budget, which keeps the budget.
NextLedger ==
  \/ AddExpense
  \/ UpdateExpense
  \/ DeleteExpense
  \/ UpdateBudget

SpecLedger == InitLedger /\ [][NextLedger]_vars

(* ------------------- two concurrent expense requests ------------------ *)
\* Two expenses of 60 recorded under a budget of 100 that has spent their sum.
ConcurrentExpense(id) ==
  [id |-> id, project_id |-> 1, amount |-> 60, category |-> Some("General"),
   incurred_at |-> Today, created_by |-> 1]

InitConcurrent ==
  /\ projects = [p \in ProjectIds |-> TheProject]
  /\ tasks = << >>
  /\ budgets = {[FirstBudget(100) EXCEPT !.spent_amount = 120]}
  /\ expenses = {ConcurrentExpense(1), ConcurrentExpense(2)}
  /\ notifications = [u \in Users |-> 0]
  /\ next_budget_id = 2
  /\ next_expense_id = 3
  /\ now = Today
  /\ in_flight = NoRequests
  /\ res = NoResult

\* A request adds an expense, or updates or deletes the expense of its own
\* number, so that the two requests never touch the same expense.
BeginAddExpense ==
  \E r \in Requests, u \in Users, p \in ProjectArgs, d \in ExpenseData :
    begin_add_expense(r, u, p, d)
BeginUpdateExpense ==
  \E r \in Requests, u \in Users, d \in ExpenseData : begin_update_expense(r, u, r, d)
BeginDeleteExpense == \E r \in Requests, u \in Users : begin_delete_expense(r, u, r)
CommitAddExpense == \E r \in Requests : commit_add_expense(r)
CommitUpdateExpense == \E r \in Requests : commit_update_expense(r)
CommitDeleteExpense == \E r \in Requests : commit_delete_expense(r)
AbortStaleRequest == \E r \in Requests : abort_stale_request(r)

NextConcurrent ==
  \/ BeginAddExpense
  \/ BeginUpdateExpense
  \/ BeginDeleteExpense
  \/ CommitAddExpense
  \/ CommitUpdateExpense
  \/ CommitDeleteExpense
  \/ AbortStaleRequest

SpecConcurrent == InitConcurrent /\ [][NextConcurrent]_vars

(* ============================== claims ================================ *)
Returned(op) == res.op = op /\ res.outcome = "returned"

\* The authorization check each project-scoped analytics operation makes.
PassesAuthorization(op, user_id, project) ==
  IF op \in {"get_project_health", "get_resource_utilization"}
  THEN user_id \in project.members
  ELSE user_id \in project.members \/ user_id = project.owner_id

ProjectAnalytics ==
  {"get_project_health", "get_resource_utilization", "get_risk_assessment",
   "get_budget_variance_analysis", "get_expense_forecasting"}

\* C1: a project-scoped analytics call by a user who fails the authorization
\* check ends in the authorization error, never in a returned payload.
C1_AuthorizationErrorPropagates ==
  (/\ res.op \in ProjectAnalytics
   /\ res.project_id \in DOMAIN projects
   /\ ~PassesAuthorization(res.op, res.user_id, projects[res.project_id]))
  => res.outcome = "PermissionError"

\* C2: every existing budget's spent_amount is the sum of the amounts of the
\* expenses currently recorded for its project.
C2_SpentIsSumOfExpenses ==
  \A b \in budgets :
    b.spent_amount = SumSet([e \in expenses |-> e.amount],
                            {e \in expenses : e.project_id = b.project_id})

\* C3: no operation ends in a division-by-zero error (so add_expense on a
\* budget with nothing allocated completes), and the utilization reported for
\* a budget with nothing allocated is 0.
C3_NoDivisionByZero ==
  /\ res.outcome # "ZeroDivisionError"
  /\ (Returned("get_resource_utilization") /\ Has(res.payload.budget)
      /\ Val(res.payload.budget).allocated_amount = 0)
     => Val(res.payload.budget).utilization_percentage[1] = 0

(* ------------------------- risk assessment ---------------------------- *)
\* The points the rule table gives a fired factor.
RulePoints(f) ==
  CASE f.type = "deadline" /\ f.severity = "critical" -> 40
    [] f.type = "deadline" /\ f.severity = "high" -> 30
    [] f.type = "task_overdue" /\ f.severity = "medium" -> 20
    [] f.type = "budget" /\ f.severity = "critical" -> 35
    [] f.type = "budget" /\ f.severity = "high" -> 25
    [] f.type = "budget" /\ f.severity = "medium" -> 15
    [] f.type = "workload" /\ f.severity = "medium" -> 15
    [] f.type = "velocity" /\ f.severity = "high" -> 25
    [] OTHER -> -1000

\* The capped sum of the rule points of the factors at the positions in I.
CappedPoints(fs, I) ==
  LET total == SumSet([i \in DOMAIN fs |-> RulePoints(fs[i])], I)
  IN IF total > 100 THEN 100 ELSE total

\* C4: overall_risk_score is min(100, sum of the points of the fired factors);
\* it lies in 0..100 and is no smaller than the score of any subset of the
\* fired factors.
C4_RiskScoreIsCappedSum ==
  Returned("get_risk_assessment") =>
    LET fs == res.payload.risk_factors
        score == res.payload.overall_risk_score
    IN /\ score = CappedPoints(fs, DOMAIN fs)
       /\ score \in 0..100
       /\ \A I \in SUBSET DOMAIN fs : CappedPoints(fs, I) <= score

\* C4 witness: four factors fired, worth 115 points, and the score is 100.
C4_Witness ==
  /\ Returned("get_risk_assessment")
  /\ Len(res.payload.risk_factors) = 4
  /\ SumSeq([i \in DOMAIN res.payload.risk_factors |->
               RulePoints(res.payload.risk_factors[i])]) = 115
  /\ res.payload.overall_risk_score = 100

\* The triggers of the rule table, read off the stored records.
TheTasks == TasksOf(res.project_id)
NumTasks == Len(TheTasks)
NumCompleted == Cardinality({i \in 1..NumTasks : TheTasks[i].status = "completed"})
NumOverdue ==
  Cardinality({i \in 1..NumTasks :
                 /\ TheTasks[i].status # "completed"
                 /\ TheTasks[i].due_date # {}
                 /\ \E d \in TheTasks[i].due_date : d < now})
\* days_to_deadline <= 0: the deadline is less than one whole day ahead.
DeadlinePassed(project) ==
  \E d \in project.deadline : d - now < TicksPerDay
\* 0 < days_to_deadline <= 7 and some task is not completed.
DeadlineImminent(project) ==
  /\ \E d \in project.deadline :
       d - now >= TicksPerDay /\ d - now < 8 * TicksPerDay
  /\ NumCompleted < NumTasks
OverdueRatioHigh == 10 * NumOverdue > 3 * NumTasks
Fired(type, severity) ==
  \E i \in DOMAIN res.payload.risk_factors :
    /\ res.payload.risk_factors[i].type = type
    /\ res.payload.risk_factors[i].severity = severity

\* C5: for a project with at least one task, with or without a deadline,
\* the overdue-ratio factor (medium) fires exactly when neither deadline
\* factor fires and more than 30% of the tasks are overdue.
C5_OverdueRatioFactor ==
  (Returned("get_risk_assessment") /\ NumTasks >= 1) =>
    /\ Fired("task_overdue", "medium") <=>
         (/\ ~Fired("deadline", "critical")
          /\ ~Fired("deadline", "high")
          /\ OverdueRatioHigh)
    /\ \A i \in DOMAIN res.payload.risk_factors :
         res.payload.risk_factors[i].type = "task_overdue"
           => res.payload.risk_factors[i].severity = "medium"

\* The budget's utilization percentage exceeds k.
UtilizationAbove(k) ==
  \E b \in budgets :
    /\ b.project_id = res.project_id
    /\ b.allocated_amount > 0
    /\ 100 * b.spent_amount > k * b.allocated_amount
FamilySize(types) ==
  Cardinality({i \in DOMAIN res.payload.risk_factors :
                 res.payload.risk_factors[i].type \in types})

\* C6: the deadline family and the budget family each contribute at most one
\* factor, the fired one being the highest-severity rule whose trigger holds;
\* workload and velocity each fire exactly on their own trigger.
C6_OneFactorPerFamily ==
  Returned("get_risk_assessment") =>
    LET project == projects[res.project_id] IN
    /\ FamilySize({"deadline", "task_overdue"}) <= 1
    /\ FamilySize({"budget"}) <= 1
    /\ FamilySize({"workload"}) <= 1
    /\ FamilySize({"velocity"}) <= 1
    /\ Fired("deadline", "critical") <=> DeadlinePassed(project)
    /\ Fired("deadline", "high") <=>
         (~DeadlinePassed(project) /\ DeadlineImminent(project))
    /\ Fired("task_overdue", "medium") =>
         (~DeadlinePassed(project) /\ ~DeadlineImminent(project) /\ OverdueRatioHigh)
    /\ Fired("budget", "critical") <=> UtilizationAbove(100)
    /\ Fired("budget", "high") <=> (UtilizationAbove(90) /\ ~UtilizationAbove(100))
    /\ Fired("budget", "medium") <=> (UtilizationAbove(75) /\ ~UtilizationAbove(90))
    /\ Fired("workload", "medium") <=>
         NumTasks > 10 * (Cardinality(project.members) + 1)
    /\ Fired("velocity", "high") <=>
         (NumTasks = 0 \/ 100 * NumCompleted < 30 * NumTasks)
    /\ \A i \in DOMAIN res.payload.risk_factors :
         RulePoints(res.payload.risk_factors[i]) > 0

\* C6 witness: one factor of each family fires at once, the deadline family's
\* being the overdue ratio and the budget family's the near-limit rule.
C6_Witness ==
  /\ Returned("get_risk_assessment")
  /\ Fired("task_overdue", "medium")
  /\ Fired("budget", "high")
  /\ Fired("workload", "medium")
  /\ Fired("velocity", "high")

(* --------------------------- project health --------------------------- *)
\* Completed tasks having both a due date and a completion timestamp, and
\* those of them completed by the due date.
WithBothDates ==
  {i \in 1..NumTasks :
     /\ TheTasks[i].status = "completed"
     /\ TheTasks[i].due_date # {}
     /\ TheTasks[i].last_progress_update # {}}
CompletedOnTime ==
  {i \in WithBothDates :
     \E due \in TheTasks[i].due_date, done \in TheTasks[i].last_progress_update :
       done <= due}
CompletedLate == WithBothDates \ CompletedOnTime
DelayDays ==
  [i \in CompletedLate |->
     CHOOSE k \in 0..1000 :
       \E due \in TheTasks[i].due_date, done \in TheTasks[i].last_progress_update :
         k * TicksPerDay <= done - due /\ done - due < (k + 1) * TicksPerDay]

\* A number reported in tenths is the fraction num/den rounded to one decimal.
IsRounded1(tenths, num, den) ==
  LET diff == tenths * den - 10 * num
  IN 2 * (IF diff < 0 THEN -diff ELSE diff) <= den

\* 100 - 2*overdue_percentage - 0.5*(100 - on_time_rate) over the common
\* denominator den, for n tasks, o overdue, c completed, t of them on time
\* (on_time_rate being 100*t/c, and 100 when nothing is completed).
RawHealthDen(n, c) == IF c = 0 THEN n ELSE n * c
RawHealthNum(n, o, c, t) ==
  IF c = 0 THEN 100 * n - 200 * o
  ELSE 100 * n * c - 200 * o * c - 50 * n * (c - t)
ClampedHealthNum(n, o, c, t) ==
  LET x == RawHealthNum(n, o, c, t)
      top == 100 * RawHealthDen(n, c)
  IN IF x < 0 THEN 0 ELSE IF x > top THEN top ELSE x

\* C7: for a non-empty task set health_score is
\* clamp(0, 100, 100 - 2*overdue_percentage - 0.5*(100 - on_time_rate)), with
\* the on_time_rate the operation computes; it lies in [0, 100], and a task
\* set with no smaller overdue percentage and no larger on-time rate never
\* scores higher.
C7_HealthScore ==
  (Returned("get_project_health") /\ NumTasks >= 1) =>
    LET h == res.payload.health_score
        n == NumTasks
        c == NumCompleted
        t == Cardinality(CompletedOnTime)
    IN /\ IsRounded1(h, ClampedHealthNum(n, NumOverdue, c, t), RawHealthDen(n, c))
       /\ h \in 0..1000
       /\ \A n2 \in 1..MaxHealthTasks, o2, c2, t2 \in 0..MaxHealthTasks :
            (/\ o2 + c2 <= n2
             /\ t2 <= c2
             /\ o2 * n >= NumOverdue * n2
             /\ FLe(on_time_rate(t2, c2), on_time_rate(t, c)))
            => round1(health_score(Frac(o2 * 100, n2), on_time_rate(t2, c2))) <= h

\* C7 witness: an overdue task, a task completed on time and one completed
\* late give a score strictly between 0 and 100.
C7_Witness ==
  /\ Returned("get_project_health")
  /\ NumTasks = 3
  /\ NumOverdue = 1
  /\ Cardinality(CompletedOnTime) = 1
  /\ Cardinality(CompletedLate) = 1
  /\ res.payload.health_score = 83

\* C8: on_time_rate is the share, in percent, of the completed tasks with
\* both dates that were completed by the due date; completed tasks lacking a
\* date are not in the denominator.
C8_OnTimeRateDenominator ==
  (Returned("get_project_health") /\ WithBothDates # {}) =>
    IsRounded1(res.payload.on_time_completion_rate,
               100 * Cardinality(CompletedOnTime), Cardinality(WithBothDates))

\* C9: average_delay_days is the mean delay in days over exactly the tasks
\* completed late, and 0 if there are none.
C9_AverageDelayDivisor ==
  (Returned("get_project_health") /\ NumTasks >= 1) =>
    IF CompletedLate = {} THEN res.payload.average_delay_days = 0
    ELSE IsRounded1(res.payload.average_delay_days,
                    SumSet(DelayDays, CompletedLate), Cardinality(CompletedLate))

(* ------------------------- expense forecasting ------------------------ *)
\* The historical monthly aggregate points: the distinct months in which the
\* project has expenses.
HistoricalPoints ==
  Cardinality({m \in 0..1000 :
                 \E e \in expenses :
                   /\ e.project_id = res.project_id
                   /\ 30 * TicksPerDay * m <= e.incurred_at
                   /\ e.incurred_at < 30 * TicksPerDay * (m + 1)})

\* C10: for a caller who may view the project, get_expense_forecasting with
\* fewer than 3 historical monthly points returns forecast_available = false
\* and data_points = the number of points; with 3 or more it returns
\* forecast_available = true.  It never raises.
C10_ForecastNeedsThreePoints ==
  /\ res.op = "get_expense_forecasting" => res.outcome = "returned"
  /\ (/\ Returned("get_expense_forecasting")
      /\ res.project_id \in DOMAIN projects
      /\ PassesAuthorization(res.op, res.user_id, projects[res.project_id]))
     => IF HistoricalPoints < 3
        THEN /\ ~res.payload.forecast_available
             /\ res.payload.data_points = HistoricalPoints
        ELSE res.payload.forecast_available

(* ------------------------- variance analysis -------------------------- *)
\* The budget and the expenses the last variance analysis was made on.
VarianceReturned == Returned("get_budget_variance_analysis") /\ res.payload.has_budget
VarianceBudgetOf == CHOOSE b \in budgets : b.project_id = res.project_id
VarianceSpent ==
  SumSet([e \in expenses |-> e.amount], {e \in expenses : e.project_id = res.project_id})
\* (total_spent - allocated) / allocated * 100, with its sign; 0 when nothing
\* is allocated.
SignedVariancePct ==
  IF VarianceBudgetOf.allocated_amount > 0
  THEN Frac((VarianceSpent - VarianceBudgetOf.allocated_amount) * 100,
            VarianceBudgetOf.allocated_amount)
  ELSE FInt(0)

\* C11: the overall status classifies the signed total variance percentage:
\* on_track up to 5, minor_variance up to 15, significant_variance up to 30,
\* critical_variance above 30; a project that has spent no more than its
\* allocation is on_track.
C11_StatusFromSignedVariance ==
  VarianceReturned =>
    res.payload.status =
      (IF FLe(SignedVariancePct, FInt(5)) THEN "on_track"
       ELSE IF FLe(SignedVariancePct, FInt(15)) THEN "minor_variance"
       ELSE IF FLe(SignedVariancePct, FInt(30)) THEN "significant_variance"
       ELSE "critical_variance")

\* The categories among the analysed expenses (no category counts as
\* 'General'), the allocation and what was spent in a category.
VarianceExpenses == {e \in expenses : e.project_id = res.project_id}
CategoryName(e) == IF e.category = {} THEN "General" ELSE CHOOSE c \in e.category : TRUE
CategoriesPresent == {CategoryName(e) : e \in VarianceExpenses}
NumCategories == Cardinality(CategoriesPresent)
Allocated == VarianceBudgetOf.allocated_amount
ActualOf(c) ==
  SumSet([e \in expenses |-> e.amount], {e \in VarianceExpenses : CategoryName(e) = c})
\* h (in units of 1/scale) is num/den rounded to the nearest unit (den > 0).
IsNearest(h, num, den, scale) ==
  LET d == h * den - scale * num IN 2 * d <= den /\ -2 * d <= den

\* The sum of the planned amounts of all reported categories (hundredths).
PlannedTotal ==
  SumSet([c \in DOMAIN res.payload.category_analysis |->
            res.payload.category_analysis[c].planned],
         DOMAIN res.payload.category_analysis)

\* C12 as stated: every category among the expenses has planned = allocated /
\* number of categories, variance = actual - planned, variance% = variance /
\* planned * 100 (0 if planned = 0), and the planned amounts sum to the
\* allocated amount.
C12_EvenSplitExact ==
  VarianceReturned =>
    /\ \A c \in CategoriesPresent :
         /\ c \in DOMAIN res.payload.category_analysis
         /\ LET a == res.payload.category_analysis[c]
            IN /\ a.planned * NumCategories = 100 * Allocated
               /\ a.actual = 100 * ActualOf(c)
               /\ a.variance = a.actual - a.planned
               /\ IF a.planned = 0 THEN a.variance_percentage = 0
                  ELSE a.variance_percentage * a.planned = 1000 * a.variance
    /\ PlannedTotal = 100 * Allocated

\* C12, amended: the reported planned and variance are the exact values
\* rounded to the nearest hundredth and the reported variance% to the nearest
\* tenth, so the planned amounts sum to the allocated amount up to half a
\* hundredth per category.
C12_EvenSplitRounded ==
  (VarianceReturned /\ CategoriesPresent # {}) =>
    /\ DOMAIN res.payload.category_analysis = CategoriesPresent
    /\ \A c \in CategoriesPresent :
         LET a == res.payload.category_analysis[c]
             n == NumCategories
         IN /\ IsNearest(a.planned, Allocated, n, 100)
            /\ a.actual = 100 * ActualOf(c)
            /\ IsNearest(a.variance, ActualOf(c) * n - Allocated, n, 100)
            /\ IF Allocated = 0 THEN a.variance_percentage = 0
               ELSE IsNearest(a.variance_percentage,
                              (ActualOf(c) * n - Allocated) * 100, Allocated, 10)
            /\ a.expense_count =
                 Cardinality({e \in VarianceExpenses : CategoryName(e) = c})
    /\ 2 * Abs(PlannedTotal - 100 * Allocated) <= NumCategories

\* 100 allocated over three categories: each planned amount is reported as
\* 33.33.
C12_Witness ==
  /\ VarianceReturned
  /\ NumCategories = 3
  /\ Allocated = 100
  /\ \A c \in CategoriesPresent : res.payload.category_analysis[c].planned = 3333

ProductivityTasks ==
  {i \in DOMAIN tasks :
     /\ tasks[i].owner_id = res.user_id
     /\ (res.project_id # 0 => tasks[i].project_id = res.project_id)}
WeekStart(k) == now - (ProductivityWeeks + 1 - k) * 7 * TicksPerDay
\* The start of the k-th of n monthly windows (k = 1 is the oldest).
MonthStart(k, n) ==
  (now - ((now \div TicksPerDay) % 30) * TicksPerDay) - (n - k) * 30 * TicksPerDay
\* What the project's expenses incurred in [from, to) amount to.
SpentIn(from, to) ==
  SumSet([e \in expenses |-> e.amount],
         {e \in expenses : /\ e.project_id = res.project_id
                           /\ from <= e.incurred_at /\ e.incurred_at < to})

\* C14: in each windowed series a record is counted in a window iff its
\* timestamp lies in [window start, window end), so a record on the boundary
\* of two adjacent windows is counted in the later one only.
C14_HalfOpenWindows ==
  /\ Returned("get_productivity_metrics") =>
       \A k \in 1..ProductivityWeeks :
         res.payload.tasks_completed_per_week[k].completed =
           Cardinality({i \in ProductivityTasks :
                          /\ tasks[i].status = "completed"
                          /\ tasks[i].last_progress_update # {}
                          /\ \E t \in tasks[i].last_progress_update :
                               WeekStart(k) <= t /\ t < WeekStart(k) + 7 * TicksPerDay})
  /\ Returned("get_resource_utilization") =>
       \A k \in 1..UtilizationMonths :
         res.payload.monthly_expenses[k].amount =
           SpentIn(MonthStart(k, UtilizationMonths),
                   MonthStart(k, UtilizationMonths) + 30 * TicksPerDay)
  /\ VarianceReturned =>
       \A k \in 1..VarianceMonths :
         res.payload.monthly_variance[k].actual =
           100 * SpentIn(MonthStart(k, VarianceMonths),
                         MonthStart(k, VarianceMonths) + 30 * TicksPerDay)

\* The days the last trend analysis was asked for.
TrendDaysAsked ==
  (res.payload.period.end_date - res.payload.period.start_date) \div TicksPerDay

\* C15 as stated: every returned series has as many entries as its window
\* (12 weeks, 12 months, 6 months, `days` days), in strictly chronological
\* order, whatever the records.
C15_SeriesLengthAlways ==
  /\ Returned("get_productivity_metrics") =>
       LET w == res.payload.tasks_completed_per_week
       IN /\ Len(w) = ProductivityWeeks
          /\ \A k \in 1..(Len(w) - 1) : w[k].week < w[k + 1].week
  /\ Returned("get_resource_utilization") =>
       LET m == res.payload.monthly_expenses
       IN /\ Len(m) = UtilizationMonths
          /\ \A k \in 1..(Len(m) - 1) : m[k].month < m[k + 1].month
  /\ (Returned("get_budget_variance_analysis") /\ res.payload.status # "error") =>
       LET m == res.payload.monthly_variance
       IN /\ Len(m) = VarianceMonths
          /\ \A k \in 1..(Len(m) - 1) : m[k].month < m[k + 1].month
  /\ Returned("get_trend_analysis") =>
       LET d == res.payload.productivity_trend
       IN /\ Len(d) = TrendDaysAsked
          /\ \A k \in 1..(Len(d) - 1) : d[k].date < d[k + 1].date

\* C15, amended: monthly_variance has its six entries whenever the project
\* has a budget (without one the result carries an empty series); the other
\* series always have the length of their window.  The entries are those of
\* consecutive windows ending at the current one, and a window without
\* records has an entry with value zero.
C15_SeriesLength ==
  /\ Returned("get_productivity_metrics") =>
       LET w == res.payload.tasks_completed_per_week
       IN /\ Len(w) = ProductivityWeeks
          /\ \A k \in 1..Len(w) :
               /\ w[k].week = (now \div TicksPerDay) - 7 * (ProductivityWeeks + 1 - k)
               /\ w[k].completed >= 0
               /\ ProductivityTasks = {} => w[k].completed = 0
  /\ Returned("get_resource_utilization") =>
       LET m == res.payload.monthly_expenses
       IN /\ Len(m) = UtilizationMonths
          /\ \A k \in 1..Len(m) :
               /\ m[k].month = m[Len(m)].month - (Len(m) - k)
               /\ VarianceExpenses = {} => m[k].amount = 0
  /\ Returned("get_budget_variance_analysis") =>
       LET m == res.payload.monthly_variance
       IN IF res.payload.has_budget
          THEN /\ Len(m) = VarianceMonths
               /\ \A k \in 1..Len(m) :
                    /\ m[k].month = m[Len(m)].month - (Len(m) - k)
                    /\ VarianceExpenses = {} => m[k].actual = 0
          ELSE m = << >>
  /\ Returned("get_trend_analysis") =>
       LET d == res.payload.productivity_trend
       IN /\ Len(d) = TrendDaysAsked
          /\ \A k \in 1..Len(d) :
               /\ d[k].date = (now \div TicksPerDay) - (Len(d) - k)
               /\ ProductivityTasks = {} =>
                    d[k].tasks_created = 0 /\ d[k].productivity_score = 0

\* A variance analysis of a project with a budget and no expenses: six
\* entries, all with nothing spent.
C15_Witness ==
  /\ VarianceReturned
  /\ VarianceExpenses = {}
  /\ Len(res.payload.monthly_variance) = 6
  /\ \A k \in 1..6 : res.payload.monthly_variance[k].actual = 0

(* ------------------------------ forecasts ----------------------------- *)
\* The confidence the coefficient-of-variation rule gives a series y (at
\* least 3 points, positive mean) with slope s: cv = sqrt(variance) / mean,
\* compared through its square.
CvRule(y, s) ==
  LET mean == FMean(y)
      variance == FVar(y)
      mean2 == FMul(mean, mean)
  IN IF FLt(FMul(variance, FInt(25)), mean2) /\ FLt(FAbs(s), FMul(mean, Frac(1, 10)))
     THEN "high"
     ELSE IF FLt(FMul(variance, FInt(4)), mean2) THEN "medium"
     ELSE "low"

\* The months in which the project has expenses and what was spent in each.
ExpenseMonths ==
  {e.incurred_at \div (30 * TicksPerDay) : e \in VarianceExpenses}
MonthTotal(m) ==
  SumSet([e \in expenses |-> e.amount],
         {e \in VarianceExpenses : e.incurred_at \div (30 * TicksPerDay) = m})
\* The weeks of the last 60 days in which the user's tasks were created and
\* the completion rate of each.
PredictionTasksOf ==
  {i \in ProductivityTasks :
     /\ tasks[i].created_at # {}
     /\ \A t \in tasks[i].created_at : t >= now - 60 * TicksPerDay}
WeekOf(i) == (CHOOSE t \in tasks[i].created_at : TRUE) \div (7 * TicksPerDay)
TaskWeeks == {WeekOf(i) : i \in PredictionTasksOf}
WeekRate(w) ==
  FNorm(Frac(100 * Cardinality({i \in PredictionTasksOf :
                                  WeekOf(i) = w /\ tasks[i].status = "completed"}),
             Cardinality({i \in PredictionTasksOf : WeekOf(i) = w})))

\* C16: with at least 3 points, the confidence of the expense forecast and of
\* the performance prediction is the one the coefficient-of-variation rule
\* gives the historical series (high iff cv < 0.2 and |slope| < 0.1 * mean,
\* medium iff not high and cv < 0.5, low otherwise); with fewer than 3 points
\* it is low.  (A series with mean 0 is not constrained.)
C16_ConfidenceByCv ==
  /\ (Returned("get_expense_forecasting") /\ res.payload.forecast_available) =>
       IF Cardinality(ExpenseMonths) < 3
       THEN \A k \in DOMAIN res.payload.forecast_data :
              res.payload.forecast_data[k].confidence = "low"
       ELSE \E f \in Orderings(ExpenseMonths) :
              LET y == [k \in DOMAIN f |-> FInt(MonthTotal(f[k]))]
                  s == regression_slope_of_rates(y)
              IN /\ res.payload.trend_rate = round2(s)
                 /\ \A k \in DOMAIN res.payload.forecast_data :
                      res.payload.forecast_data[k].confidence = CvRule(y, s)
  /\ Returned("get_performance_prediction") =>
       IF Cardinality(TaskWeeks) < 3
       THEN res.payload.prediction_confidence = "low"
       ELSE \E f \in Orderings(TaskWeeks) :
              LET y == [k \in DOMAIN f |-> WeekRate(f[k])]
                  s == regression_slope_of_rates(y)
              IN /\ res.payload.trend_slope = round2(s)
                 /\ FLt(FInt(0), FMean(y)) => res.payload.prediction_confidence = CvRule(y, s)

\* C17: an available expense forecast has exactly forecast_months points,
\* point i (from 0) being max(0, avg + slope * (n + i)) of the historical
\* series, reported to the nearest hundredth and never negative; the
\* predicted weekly completion rate lies in [0, 100].
C17_ForecastPoints ==
  /\ (Returned("get_expense_forecasting") /\ res.payload.forecast_available) =>
       LET fd == res.payload.forecast_data
       IN /\ Len(fd) = res.payload.forecast_period_months
          /\ \A k \in DOMAIN fd : fd[k].predicted_amount >= 0
          /\ \E f \in Orderings(ExpenseMonths) :
               LET y == [k \in DOMAIN f |-> FInt(MonthTotal(f[k]))]
                   s == regression_slope_of_rates(y)
                   avg == FMean(y)
               IN /\ res.payload.trend_rate = round2(s)
                  /\ \A k \in DOMAIN fd :
                       LET v == FNorm(FMax(FInt(0),
                                           FAdd(avg, FMul(s, FInt(Len(y) + k - 1)))))
                       IN IsNearest(fd[k].predicted_amount, v[1], v[2], 100)
  /\ Returned("get_performance_prediction") =>
       /\ res.payload.predicted_weekly_completion_rate >= 0
       /\ res.payload.predicted_weekly_completion_rate <= 1000

\* A three-month forecast of a falling series: the raw prediction is
\* negative and the point reported is 0.
C17_Witness ==
  /\ Returned("get_expense_forecasting")
  /\ res.payload.forecast_available
  /\ res.payload.trend_rate < 0
  /\ Len(res.payload.forecast_data) = 3
  /\ res.payload.forecast_data[3].predicted_amount = 0

(* ------------------------ risk recommendations ------------------------ *)
\* A rule of the recommendation table fires on a returned factor.
RecommendationRuleFires ==
  \/ Fired("deadline", "critical") \/ Fired("deadline", "high")
  \/ Fired("budget", "critical") \/ Fired("budget", "high")
  \/ \E i \in DOMAIN res.payload.risk_factors :
       res.payload.risk_factors[i].type \in {"workload", "velocity"}

\* C18: the recommendations of a risk assessment hold no string twice and
\* are never empty; they are the single 'on track' message exactly when no
\* rule fires, and 'on track' never comes with another recommendation.
C18_RiskRecommendations ==
  Returned("get_risk_assessment") =>
    LET recs == res.payload.recommendations
    IN /\ \A r \in BagToSet(recs) : CopiesIn(r, recs) = 1
       /\ BagToSet(recs) # {}
       /\ (BagToSet(recs) = {"on_track"}) <=> ~RecommendationRuleFires
       /\ "on_track" \in BagToSet(recs) => BagToSet(recs) = {"on_track"}

\* Only a medium budget factor is returned: no rule fires and the single
\* recommendation is 'on track'.
C18_Witness ==
  /\ Returned("get_risk_assessment")
  /\ Len(res.payload.risk_factors) = 1
  /\ Fired("budget", "medium")
  /\ BagToSet(res.payload.recommendations) = {"on_track"}

(* ------------------------------- C19 ---------------------------------- *)
DashboardUser == res.user_id
DashboardProjectsOf(u) == {p \in DOMAIN projects : u \in projects[p].members}
\* Some task of the project has no status: its health computation fails.
HealthFails(p) ==
  \E i \in DOMAIN tasks : tasks[i].project_id = p /\ tasks[i].status = NullStatus
\* Some task of the user has no status: the productivity computation fails.
ProductivityFails(u) ==
  \E i \in DOMAIN tasks : tasks[i].owner_id = u /\ tasks[i].status = NullStatus
ProjectHasTasks(p) == \E i \in DOMAIN tasks : tasks[i].project_id = p

\* C19: get_user_dashboard for an existing user returns even when the
\* productivity computation or the health computation of a project fails;
\* project_summaries has one entry per project of the user, in project order;
\* a project whose health fails carries health_score 0, status 'unknown',
\* total_tasks 0 and overdue_tasks 0; a failed productivity section carries the
\* all-zero defaults; and a project (with tasks) whose health does not fail
\* carries its own health values whatever happened to the others.
C19_DashboardIsolatesFailures ==
  (res.op = "get_user_dashboard" /\ DashboardUser \in Users) =>
    LET s == res.payload.project_summaries
        mine == DashboardProjectsOf(DashboardUser)
    IN /\ res.outcome = "returned"
       /\ Len(s) = Cardinality(mine)
       /\ \A k \in DOMAIN s : s[k].id \in mine
       /\ \A j, k \in DOMAIN s : j < k => s[j].id < s[k].id
       /\ res.payload.projects_count = Cardinality(mine)
       /\ \A k \in DOMAIN s :
            HealthFails(s[k].id) =>
              /\ s[k].health_score = 0
              /\ s[k].status = "unknown"
              /\ s[k].total_tasks = 0
              /\ s[k].overdue_tasks = 0
       /\ \A k \in DOMAIN s :
            (~HealthFails(s[k].id) /\ ProjectHasTasks(s[k].id)) =>
              LET health == project_health(TasksOf(s[k].id), now)
              IN /\ s[k].health_score = health.health_score
                 /\ s[k].status = health.status
                 /\ s[k].total_tasks = health.total_tasks
                 /\ s[k].overdue_tasks = health.overdue_tasks
       /\ ProductivityFails(DashboardUser) =>
            /\ res.payload.total_tasks = 0
            /\ res.payload.completed_tasks = 0
            /\ res.payload.productivity_metrics.total_tasks = 0
            /\ res.payload.productivity_metrics.completed_tasks = 0
            /\ res.payload.productivity_metrics.in_progress_tasks = 0
            /\ res.payload.productivity_metrics.pending_tasks = 0
            /\ res.payload.productivity_metrics.overdue_tasks = 0
            /\ res.payload.productivity_metrics.completion_rate = 0
            /\ res.payload.productivity_metrics.avg_completion_time_days = 0
            /\ res.payload.productivity_metrics.tasks_completed_per_week = << >>
       /\ ~ProductivityFails(DashboardUser) =>
            res.payload.total_tasks =
              Len(SelectSeq(tasks, LAMBDA t : t.owner_id = DashboardUser))

\* The dashboard of user 1 when the productivity and the health of project 1
\* fail and project 2 is summarised from its own tasks.
C19_Witness ==
  /\ Returned("get_user_dashboard")
  /\ DashboardUser = 1
  /\ ProductivityFails(1)
  /\ HealthFails(1)
  /\ ~HealthFails(2)
  /\ ProjectHasTasks(2)
  /\ res.payload.project_summaries[1].status = "unknown"
  /\ res.payload.project_summaries[2].status # "unknown"
  /\ res.payload.project_summaries[2].total_tasks > 0

(* ------------------------------- C20 ---------------------------------- *)
ReadOperations ==
  {"get_productivity_metrics", "get_resource_utilization", "get_project_health",
   "get_project_stats", "get_user_dashboard", "get_trend_analysis",
   "get_risk_assessment", "get_performance_prediction", "get_project_financials",
   "get_expenses", "get_budget_variance_analysis", "get_expense_forecasting",
   "get_cost_optimization_analysis"}

\* C20: a step of a read or analytics operation, whether it returns a result
\* or fails, leaves the stored tasks, projects, budgets, expenses and
\* notifications as they were.
C20_ReadsLeaveStoreUnchanged ==
  [][res'.op \in ReadOperations =>
       UNCHANGED <<tasks, projects, budgets, expenses, notifications>>]_vars

\* A read operation has failed on a store that holds a budget, an expense and
\* a notification.
C20_Witness ==
  /\ res.op \in ReadOperations
  /\ res.outcome # "returned"
  /\ budgets # {}
  /\ expenses # {}
  /\ \E u \in Users : notifications[u] > 0

(* ------------------------------- C21 ---------------------------------- *)
\* C21: create_budget and update_budget reject a negative allocated amount,
\* so no stored budget has allocated_amount < 0.
C21_NoNegativeAllocation ==
  \A b \in budgets : b.allocated_amount >= 0

(* ------------------------------- C25 ---------------------------------- *)
BudgetsOfProject(bs, p) == {b \in bs : b.project_id = p}

\* C25: after every step of create_budget, update_budget and delete_budget
\* each project has at most one budget, and a create_budget on a project that
\* already has a budget fails and leaves the stored budgets as they were.
C25_OneBudgetPerProject ==
  [][/\ \A p \in DOMAIN projects : Cardinality(BudgetsOfProject(budgets', p)) <= 1
     /\ (res'.op = "create_budget"
         /\ BudgetsOfProject(budgets, res'.project_id) # {})
        => /\ res'.outcome \in {"ValueError", "PermissionError"}
           /\ budgets' = budgets]_vars

\* A member's create_budget has failed on a project that has a budget with a
\* currency and an allocated amount of its own.
C25_Witness ==
  /\ res.op = "create_budget"
  /\ res.outcome = "ValueError"
  /\ \E b \in budgets :
       /\ b.project_id = res.project_id
       /\ b.allocated_amount = 100
       /\ b.currency = "EUR"
  /\ \E b \in budgets : b.project_id # res.project_id

(* ------------------------------- C22 ---------------------------------- *)
RiskScore == res.payload.overall_risk_score
RiskLevel == res.payload.risk_level

\* C22: the risk_level of a returned assessment is decided by the capped
\* overall_risk_score alone: low iff score < 30, medium iff 30 <= score < 60,
\* high iff 60 <= score < 80, critical iff score >= 80.
C22_RiskLevelBands ==
  Returned("get_risk_assessment") =>
    /\ RiskLevel \in {"low", "medium", "high", "critical"}
    /\ RiskLevel = "low" <=> RiskScore < 30
    /\ RiskLevel = "medium" <=> (30 <= RiskScore /\ RiskScore < 60)
    /\ RiskLevel = "high" <=> (60 <= RiskScore /\ RiskScore < 80)
    /\ RiskLevel = "critical" <=> RiskScore >= 80

\* An assessment whose score sits on the boundary between high and critical.
C22_Witness ==
  /\ Returned("get_risk_assessment")
  /\ RiskScore = 80
  /\ RiskLevel = "critical"

(* ------------------------------- C23 ---------------------------------- *)
FittedSeries == res.payload.y
\* The series is a * x + b over x = 0..n-1.
IsLine(y, a, b) == \A i \in DOMAIN y : y[i] = a * (i - 1) + b

\* C23: fitted to a series y[x] = a * x + b with at least two points, both
\* least-squares computations give the slope a and the intercept is b; for a
\* single point, where the denominator is zero, the slope is 0.
C23_FitRecoversLine ==
  Returned("fit_line") =>
    /\ \A a \in LineSlopes, b \in LineIntercepts :
         (Len(FittedSeries) >= 2 /\ IsLine(FittedSeries, a, b)) =>
           /\ FEq(res.payload.trend_slope, FInt(a))
           /\ FEq(res.payload.slope, FInt(a))
           /\ FEq(res.payload.intercept, FInt(b))
    /\ Len(FittedSeries) = 1 =>
         /\ FEq(res.payload.trend_slope, FInt(0))
         /\ FEq(res.payload.slope, FInt(0))

\* The fit of y = 2x + 1 over x = 0..9.
C23_Witness ==
  /\ Returned("fit_line")
  /\ Len(FittedSeries) = 10
  /\ IsLine(FittedSeries, 2, 1)
  /\ res.payload.slope = <<2, 1>>
  /\ res.payload.intercept = <<1, 1>>

(* ------------------------------- C24 ---------------------------------- *)
\* The sum of the amounts of the expenses es of project p.
ExpenseSum(es, p) ==
  LET mine == {e \in es : e.project_id = p}
  IN SumSet([e \in mine |-> e.amount], mine)

\* C24: with the budget created before any expense and never deleted, after
\* every step of add_expense, update_expense and delete_expense the budget's
\* spent_amount is the sum of the amounts of the project's expenses, and a
\* call that fails the membership check changes neither the expenses nor the
\* budgets.
C24_SpentTracksExpenses ==
  [][/\ \A b \in budgets' : b.spent_amount = ExpenseSum(expenses', b.project_id)
     /\ res'.outcome = "PermissionError" =>
          (expenses' = expenses /\ budgets' = budgets)]_vars

\* An expense has been updated by a member while another expense exists, and
\* the budget has spent the sum of the two.
C24_Witness ==
  /\ Returned("update_expense")
  /\ Cardinality(expenses) = 2
  /\ \E b \in budgets :
       /\ b.spent_amount = 120
       /\ b.spent_amount = ExpenseSum(expenses, b.project_id)

(* ------------------------------- C26 ---------------------------------- *)
\* The step is a successful add_expense that leaves the budget of its project
\* with more spent than allocated.
OverrunningAdd ==
  /\ res'.op = "add_expense"
  /\ res'.outcome = "returned"
  /\ \E b \in budgets' :
       b.project_id = res'.project_id /\ b.spent_amount > b.allocated_amount

\* C26: a step creates budget-overrun notifications exactly when it is a
\* successful add_expense that leaves spent_amount > allocated_amount, and
\* then one for each member of the project and none for anyone else; no other
\* step, update_expense and delete_expense included, creates any.
C26_OverrunNotifications ==
  [][\A u \in Users :
       notifications'[u] - notifications[u] =
         IF OverrunningAdd /\ u \in projects[res'.project_id].members
         THEN 1 ELSE 0]_vars

\* The second add_expense in a row that leaves the budget overrun has
\* notified the member a second time.
C26_Witness ==
  /\ Returned("add_expense")
  /\ notifications[1] = 2
  /\ notifications[2] = 0
  /\ \E b \in budgets : b.spent_amount = 120 /\ b.allocated_amount = 50

\* An update_expense has raised spent_amount above allocated_amount and nobody
\* has been notified.
C26_UpdateWitness ==
  /\ Returned("update_expense")
  /\ \E b \in budgets : b.spent_amount > b.allocated_amount
  /\ \A u \in Users : notifications[u] = 0

(* ------------------------------- C27 ---------------------------------- *)
AllRequestsDone == \A r \in Requests : in_flight[r].pc = "done"

\* C27: when two concurrent expense mutations of a project have both
\* finished, the budget's spent_amount reflects both changes: starting from
\* the sum of the expenses it is again the sum of the expenses.
C27_NoLostUpdate ==
  AllRequestsDone =>
    \A b \in budgets : b.spent_amount = ExpenseSum(expenses, b.project_id)

(* ------------------------------- C28 ---------------------------------- *)
ProjectScoped ==
  {"get_project_health", "get_resource_utilization", "get_project_financials",
   "get_risk_assessment", "get_budget_variance_analysis", "get_expense_forecasting"}

\* The call behind result x treated its caller as unauthorized: it raised the
\* permission error, or returned the error payload made from it.
Unauthorized(x) ==
  \/ x.outcome = "PermissionError"
  \/ /\ x.outcome = "returned"
     /\ "message" \in DOMAIN x.payload
     /\ x.payload.message = "PermissionError"

\* C28: two project-scoped operations called one after the other by the same
\* user on the same project take the same access decision.
C28_SameAccessDecision ==
  [][(/\ res.op \in ProjectScoped
      /\ res'.op \in ProjectScoped
      /\ res'.user_id = res.user_id
      /\ res'.project_id = res.project_id
      /\ res.project_id \in DOMAIN projects)
     => (Unauthorized(res') <=> Unauthorized(res))]_vars

(* ------------------------------- C29 ---------------------------------- *)
\* C29: for every project of the user on which get_project_health returns a
\* result (no task of it lacks a status), the dashboard summary of the project
\* carries the health_score and the status of that result; a project without
\* tasks is summarised with health_score 100 and status 'healthy'.
C29_SummaryCarriesHealth ==
  (res.op = "get_user_dashboard" /\ res.outcome = "returned") =>
    LET s == res.payload.project_summaries
    IN \A k \in DOMAIN s :
         ~HealthFails(s[k].id) =>
           LET health == project_health(TasksOf(s[k].id), now)
           IN /\ s[k].health_score = health.health_score
              /\ s[k].status = health.status

(* ------------------------------- C30 ---------------------------------- *)
\* The same records in every order a query may return them.
Reorderings(rows) ==
  {[i \in DOMAIN rows |-> rows[f[i]]] : f \in Orderings(DOMAIN rows)}

\* The project argument of the call whose result is in res.
CalledProject == IF res.project_id = 0 THEN None ELSE Some(res.project_id)

\* C30: the results of get_expense_forecasting (trend_rate, trend_direction,
\* predicted amounts) and of get_performance_prediction (trend_slope, trend,
\* predicted rate) depend only on the set of records and the current time:
\* the same records supplied in any other order give the same outputs.
C30_OrderIndependent ==
  /\ (res.op = "get_expense_forecasting" /\ res.payload.forecast_available) =>
       \A rows \in Orderings(ExpensesOf(res.project_id)) :
         LET other == expense_forecast(rows, res.payload.forecast_period_months, now)
         IN /\ other.trend_rate = res.payload.trend_rate
            /\ other.trend_direction = res.payload.trend_direction
            /\ \A k \in DOMAIN other.forecast_data :
                 other.forecast_data[k].predicted_amount =
                   res.payload.forecast_data[k].predicted_amount
  /\ (res.op = "get_performance_prediction" /\ res.payload.available) =>
       \A owned \in Reorderings(TasksOwnedBy(res.user_id, CalledProject)) :
         LET other == performance_prediction(owned, now)
         IN /\ other.trend_slope = res.payload.trend_slope
            /\ other.trend = res.payload.trend
            /\ other.predicted_weekly_completion_rate =
                 res.payload.predicted_weekly_completion_rate

====
